---- MODULE Spec2Model ----
(***************************************************************************)
(* HealthRadar batch scripts: the postcode normaliser, the two header      *)
(* resolvers, the GP-to-ONS merge run (Practiceinformation.py) and the IMD *)
(* extraction run (HealthDepriviation_2019.py).                            *)
(*                                                                         *)
(* A Python str is a sequence of one-character strings.  A pandas missing  *)
(* value (NaN) and Python's None are the sequences NaN and None below,     *)
(* which are no text because their single element is not one character.    *)
(***************************************************************************)
EXTENDS Integers, Sequences, FiniteSets, TLC

VARIABLES
    pc_arg, pc_ret,                       \* format_uk_postcode: argument, result
    rs_cols, rs_cands, fc_ret, pk_ret,    \* resolvers: headers, candidates, results
    script,                               \* the script this process runs
    step,                                 \* the place the script has reached
    log,                                  \* the errors logged so far
    written, out_df,                      \* whether the output file is written; its rows
    exit_code,                            \* the process exit status, "running" before it
    gp_columns, gp_raw,                   \* GP.csv: header list, rows of cells
    cols, gp_core,                        \* resolved GP columns; the cleaned GP table
    map_columns, mapping,                 \* mapping csv: header list, rows of cells
    PCD2_col, OUTCODE_col, picked,        \* resolved mapping columns
    map_slim, m1, m2, m2_eng,             \* the frames of run()
    df_columns, todo, resolved_cols, all_found, \* IMD extraction: main()'s locals
    files, file_no, all_data,             \* the files of a folder; how many are done; the frames read
    prev_run,                             \* the earlier run on the same files, if any: inputs and outcome
    argv, verbose, level,                 \* the command line; args.verbose; the logger's level
    reader, content, tried, decoded,      \* a csv read: the script, the file's bytes, the encodings
                                          \* tried so far, the encoding that decoded the file
    income_columns, new_cols              \* income.py: df.columns as read; main()'s new_cols

pcVars == <<pc_arg, pc_ret>>
rsVars == <<rs_cols, rs_cands, fc_ret, pk_ret>>
procVars == <<script, step, log, written, out_df, exit_code>>
gpVars == <<gp_columns, gp_raw, cols, gp_core>>
mapVars == <<map_columns, mapping, PCD2_col, OUTCODE_col, picked, map_slim>>
frameVars == <<m1, m2, m2_eng>>
imdVars == <<df_columns, todo, resolved_cols, all_found>>
folderVars == <<files, file_no, all_data>>
cliVars == <<argv, verbose, level>>
encVars == <<reader, content, tried, decoded>>
incVars == <<income_columns, new_cols>>
otherVars == <<prev_run, cliVars, encVars, incVars>>
restVars == <<folderVars, otherVars>>
vars == <<pcVars, rsVars, procVars, gpVars, mapVars, frameVars, imdVars, restVars>>

-----------------------------------------------------------------------------
(* Values *)

NaN == <<"NaN">>
None == <<"None">>
Int123 == <<"int:123">>
Pending == <<"pending">>

NonText == {NaN, None, Int123}

\* isinstance(v, str)
IsStr(v) == v \notin NonText

UpperAlpha == <<"A","B","C","D","E","F","G","H","I","J","K","L","M",
                "N","O","P","Q","R","S","T","U","V","W","X","Y","Z">>
LowerAlpha == <<"a","b","c","d","e","f","g","h","i","j","k","l","m",
                "n","o","p","q","r","s","t","u","v","w","x","y","z">>

ToUpper == [c \in {LowerAlpha[i] : i \in DOMAIN LowerAlpha} |->
               UpperAlpha[CHOOSE i \in DOMAIN LowerAlpha : LowerAlpha[i] = c]]
ToLower == [c \in {UpperAlpha[i] : i \in DOMAIN UpperAlpha} |->
               LowerAlpha[CHOOSE i \in DOMAIN UpperAlpha : UpperAlpha[i] = c]]

UpperChar(c) == IF c \in DOMAIN ToUpper THEN ToUpper[c] ELSE c
LowerChar(c) == IF c \in DOMAIN ToLower THEN ToLower[c] ELSE c

\* str.upper(), str.lower()
Upper(s) == [i \in 1..Len(s) |-> UpperChar(s[i])]
Lower(s) == [i \in 1..Len(s) |-> LowerChar(s[i])]

\* the characters the regular expression \s and str.strip() take as whitespace
IsSpace(c) == c \in {" ", "\t"}

\* re.sub(r"\s+", repl, s): every maximal run of whitespace becomes repl
RECURSIVE ReSubWs(_, _, _)
ReSubWs(s, repl, inRun) ==
    IF s = <<>> THEN <<>>
    ELSE IF IsSpace(Head(s))
         THEN (IF inRun THEN <<>> ELSE repl) \o ReSubWs(Tail(s), repl, TRUE)
         ELSE <<Head(s)>> \o ReSubWs(Tail(s), repl, FALSE)

RECURSIVE LStrip(_)
LStrip(s) == IF s # <<>> /\ IsSpace(Head(s)) THEN LStrip(Tail(s)) ELSE s

RECURSIVE RStrip(_)
RStrip(s) ==
    IF s # <<>> /\ IsSpace(s[Len(s)]) THEN RStrip(SubSeq(s, 1, Len(s) - 1)) ELSE s

\* str.strip()
Strip(s) == RStrip(LStrip(s))

-----------------------------------------------------------------------------
(* Practiceinformation.py: format_uk_postcode *)

\* the slice s[:-3] + " " + s[-3:] taken one character short of the threshold
format_uk_postcode_strict(pc) ==
    IF ~IsStr(pc) THEN NaN
    ELSE LET s == ReSubWs(Upper(pc), <<>>, FALSE)
         IN  IF Len(s) > 5
             THEN SubSeq(s, 1, Len(s) - 3) \o <<" ">> \o SubSeq(s, Len(s) - 2, Len(s))
             ELSE s

\* the slice taken from the uppercased text with only its outer whitespace removed
format_uk_postcode_outer_only(pc) ==
    IF ~IsStr(pc) THEN NaN
    ELSE LET s == Strip(Upper(pc))
         IN  IF Len(s) >= 5
             THEN SubSeq(s, 1, Len(s) - 3) \o <<" ">> \o SubSeq(s, Len(s) - 2, Len(s))
             ELSE s

format_uk_postcode(pc) ==
    IF ~IsStr(pc) THEN NaN
    ELSE LET s == ReSubWs(Upper(pc), <<>>, FALSE)
         IN  IF Len(s) >= 5
             THEN SubSeq(s, 1, Len(s) - 3) \o <<" ">> \o SubSeq(s, Len(s) - 2, Len(s))
             ELSE s

-----------------------------------------------------------------------------
(* Header resolvers *)

Range(seq) == {seq[i] : i \in DOMAIN seq}
Min(S) == CHOOSE x \in S : \A y \in S : x <= y
Max(S) == CHOOSE x \in S : \A y \in S : x >= y

\* HealthDepriviation_2019.py: col.lower().strip()
lower_key(col) == Strip(Lower(col))

\* lower_map = {col.lower().strip(): col for col in actual_cols}: a later header
\* with the same key replaces an earlier one
lower_map_has(actual_cols, key) == \E j \in DOMAIN actual_cols : lower_key(actual_cols[j]) = key
lower_map_get(actual_cols, key) ==
    actual_cols[Max({j \in DOMAIN actual_cols : lower_key(actual_cols[j]) = key})]

\* for candidate in candidates: if candidate in actual_cols: return candidate
RECURSIVE find_exact(_, _)
find_exact(actual_cols, candidates) ==
    IF candidates = <<>> THEN None
    ELSE IF Head(candidates) \in Range(actual_cols) THEN Head(candidates)
    ELSE find_exact(actual_cols, Tail(candidates))

\* for candidate in candidates: if candidate.lower().strip() in lower_map: return ...
RECURSIVE find_lower(_, _)
find_lower(actual_cols, candidates) ==
    IF candidates = <<>> THEN None
    ELSE IF lower_map_has(actual_cols, lower_key(Head(candidates)))
         THEN lower_map_get(actual_cols, lower_key(Head(candidates)))
    ELSE find_lower(actual_cols, Tail(candidates))

\* find_column without its first loop
find_column_lower_only(actual_cols, candidates) == find_lower(actual_cols, candidates)

find_column(actual_cols, candidates) ==
    IF find_exact(actual_cols, candidates) # None
    THEN find_exact(actual_cols, candidates)
    ELSE find_lower(actual_cols, candidates)

\* Practiceinformation.py: re.sub(r"\s+", " ", c.strip().lower())
norm_key(c) == ReSubWs(Lower(Strip(c)), <<" ">>, FALSE)

\* norm = {key(c): c for c in df.columns}, as the list of the columns' keys: a
\* later column with the same key replaces an earlier one
norm_keys(columns) == [j \in DOMAIN columns |-> norm_key(columns[j])]
norm_has(keys, key) == \E j \in DOMAIN keys : keys[j] = key
norm_get(columns, keys, key) == columns[Max({j \in DOMAIN keys : keys[j] = key})]

\* for cand in candidates: if key in norm: return norm[key]
RECURSIVE pick_scan(_, _, _)
pick_scan(columns, keys, candidates) ==
    IF candidates = <<>> THEN None
    ELSE IF norm_has(keys, norm_key(Head(candidates)))
         THEN norm_get(columns, keys, norm_key(Head(candidates)))
    ELSE pick_scan(columns, keys, Tail(candidates))

\* pick_col with an exact-match loop put before its loop
pick_col_exact_first(columns, candidates) ==
    IF find_exact(columns, candidates) # None
    THEN find_exact(columns, candidates)
    ELSE pick_scan(columns, norm_keys(columns), candidates)

pick_col(columns, candidates) == pick_scan(columns, norm_keys(columns), candidates)

-----------------------------------------------------------------------------
(* Practiceinformation.py: helpers of run() *)

\* first_nonnull scanning its arguments from the last
RECURSIVE first_nonnull_reversed(_)
first_nonnull_reversed(vals) ==
    IF vals = <<>> THEN NaN
    ELSE IF IsStr(vals[Len(vals)]) /\ Strip(vals[Len(vals)]) # <<>> THEN Strip(vals[Len(vals)])
    ELSE first_nonnull_reversed(SubSeq(vals, 1, Len(vals) - 1))

\* first_nonnull(*vals): the first str with v.strip() non-empty, stripped
RECURSIVE first_nonnull(_)
first_nonnull(vals) ==
    IF vals = <<>> THEN NaN
    ELSE IF IsStr(Head(vals)) /\ Strip(Head(vals)) # <<>> THEN Strip(Head(vals))
    ELSE first_nonnull(Tail(vals))

\* " ".join(cleaned)
RECURSIVE JoinSpace(_)
JoinSpace(parts) ==
    IF parts = <<>> THEN <<>>
    ELSE IF Len(parts) = 1 THEN Head(parts)
    ELSE Head(parts) \o <<" ">> \o JoinSpace(Tail(parts))

build_address_keep(p) == IsStr(p) /\ Strip(p) # <<>>

build_address(parts) ==
    LET kept == SelectSeq(parts, build_address_keep)
        cleaned == [i \in DOMAIN kept |-> Strip(kept[i])]
    IN  IF cleaned = <<>> THEN NaN
        ELSE Strip(ReSubWs(JoinSpace(cleaned), <<" ">>, FALSE))

\* Series.astype(str) of an object column: a missing cell becomes the text "nan"
astype_str(v) == IF v = NaN THEN <<"n","a","n">> ELSE v

\* the first whitespace-delimited token of s, s not starting with whitespace
RECURSIVE FirstToken(_)
FirstToken(s) ==
    IF s = <<>> \/ IsSpace(Head(s)) THEN <<>> ELSE <<Head(s)>> \o FirstToken(Tail(s))

\* Series.str.split().str[0]: missing for a missing value and for an empty split
str_split_first(v) ==
    IF ~IsStr(v) THEN NaN
    ELSE IF LStrip(v) = <<>> THEN NaN
    ELSE FirstToken(LStrip(v))

\* Series.str.upper().str.replace(r"\s+", "", regex=True)
str_upper_nospace(v) == IF ~IsStr(v) THEN NaN ELSE ReSubWs(Upper(v), <<>>, FALSE)

\* df[col] of one row: the cell under the header col
ColIndex(columns, col) == CHOOSE j \in DOMAIN columns : columns[j] = col
Cell(columns, row, col) == row[ColIndex(columns, col)]

RECURSIVE Flatten(_)
Flatten(ss) == IF ss = <<>> THEN <<>> ELSE Head(ss) \o Flatten(Tail(ss))

\* want_map: canonical GP field -> candidate headers, in list order
want_map ==
    \* PracticeCode: Organisation Code, Organization Code, Org Code, ODS Code, Practice Code
    [ PracticeCode |->
          <<<<"O","r","g","a","n","i","s","a","t","i","o","n"," ","C","o","d","e">>,
            <<"O","r","g","a","n","i","z","a","t","i","o","n"," ","C","o","d","e">>,
            <<"O","r","g"," ","C","o","d","e">>,
            <<"O","D","S"," ","C","o","d","e">>,
            <<"P","r","a","c","t","i","c","e"," ","C","o","d","e">>>>,
    \* PracticeName: Name, Practice Name
      PracticeName |->
          <<<<"N","a","m","e">>,
            <<"P","r","a","c","t","i","c","e"," ","N","a","m","e">>>>,
    \* Addr1: Address Line 1, Address1, Address Line1
      Addr1 |->
          <<<<"A","d","d","r","e","s","s"," ","L","i","n","e"," ","1">>,
            <<"A","d","d","r","e","s","s","1">>,
            <<"A","d","d","r","e","s","s"," ","L","i","n","e","1">>>>,
    \* Addr2: Address Line 2, Address2, Address Line2
      Addr2 |->
          <<<<"A","d","d","r","e","s","s"," ","L","i","n","e"," ","2">>,
            <<"A","d","d","r","e","s","s","2">>,
            <<"A","d","d","r","e","s","s"," ","L","i","n","e","2">>>>,
    \* Addr3: Address Line 3, Address3, Address Line3
      Addr3 |->
          <<<<"A","d","d","r","e","s","s"," ","L","i","n","e"," ","3">>,
            <<"A","d","d","r","e","s","s","3">>,
            <<"A","d","d","r","e","s","s"," ","L","i","n","e","3">>>>,
    \* Addr4: Address Line 4, Address4, Address Line4
      Addr4 |->
          <<<<"A","d","d","r","e","s","s"," ","L","i","n","e"," ","4">>,
            <<"A","d","d","r","e","s","s","4">>,
            <<"A","d","d","r","e","s","s"," ","L","i","n","e","4">>>>,
    \* Addr5: Address Line 5, Address5, Address Line5, Address Line
      Addr5 |->
          <<<<"A","d","d","r","e","s","s"," ","L","i","n","e"," ","5">>,
            <<"A","d","d","r","e","s","s","5">>,
            <<"A","d","d","r","e","s","s"," ","L","i","n","e","5">>,
            <<"A","d","d","r","e","s","s"," ","L","i","n","e">>>>,
    \* PostCode: Postcode, Post Code, Postal Code, PostCode
      PostCode |->
          <<<<"P","o","s","t","c","o","d","e">>,
            <<"P","o","s","t"," ","C","o","d","e">>,
            <<"P","o","s","t","a","l"," ","C","o","d","e">>,
            <<"P","o","s","t","C","o","d","e">>>>,
    \* Status: Status
      Status |->
          <<<<"S","t","a","t","u","s">>>>,
    \* CountryName: CountryName, Country, Nation
      CountryName |->
          <<<<"C","o","u","n","t","r","y","N","a","m","e">>,
            <<"C","o","u","n","t","r","y">>,
            <<"N","a","t","i","o","n">>>> ]

\* the required list without "Status"
required_without_status == <<"PracticeCode", "PracticeName", "PostCode", "Addr1">>

required == <<"PracticeCode", "PracticeName", "PostCode", "Status", "Addr1">>

\* the candidates of the mapping's postcode and outcode columns
PCD2_candidates ==
    <<<<"P","C","D","2">>,
      <<"P","o","s","t","c","o","d","e">>,
      <<"P","C","D">>,
      <<"P","C","D","7">>,
      <<"p","c","d","2">>>>
OUTCODE_candidates ==
    <<<<"O","u","t","c","o","d","e">>,
      <<"O","U","T","C","O","D","E">>,
      <<"o","u","t","c","o","d","e">>>>

\* name_map: canonical geography field -> candidate headers, in list order
name_map ==
    \* RegionCode: RegionCode, NHSER24CD, NHSER24CDH, REGION_CODE, REGIONCODE
    [ RegionCode |->
          <<<<"R","e","g","i","o","n","C","o","d","e">>,
            <<"N","H","S","E","R","2","4","C","D">>,
            <<"N","H","S","E","R","2","4","C","D","H">>,
            <<"R","E","G","I","O","N","_","C","O","D","E">>,
            <<"R","E","G","I","O","N","C","O","D","E">>>>,
    \* RegionName: RegionName, NHSER24NM, REGION_NAME, REGIONNAME
      RegionName |->
          <<<<"R","e","g","i","o","n","N","a","m","e">>,
            <<"N","H","S","E","R","2","4","N","M">>,
            <<"R","E","G","I","O","N","_","N","A","M","E">>,
            <<"R","E","G","I","O","N","N","A","M","E">>>>,
    \* ICBID: ICBID, ICB23CDH, ICB24CD, ICB_CODE, ICB Code, ICBIDCODE
      ICBID |->
          <<<<"I","C","B","I","D">>,
            <<"I","C","B","2","3","C","D","H">>,
            <<"I","C","B","2","4","C","D">>,
            <<"I","C","B","_","C","O","D","E">>,
            <<"I","C","B"," ","C","o","d","e">>,
            <<"I","C","B","I","D","C","O","D","E">>>>,
    \* ICBName: ICBName, ICB23NM, ICB24NM, ICB_NAME, ICB Name
      ICBName |->
          <<<<"I","C","B","N","a","m","e">>,
            <<"I","C","B","2","3","N","M">>,
            <<"I","C","B","2","4","N","M">>,
            <<"I","C","B","_","N","A","M","E">>,
            <<"I","C","B"," ","N","a","m","e">>>>,
    \* MSOAID: MSOAID, MSOA21CD, MSOA11CD, MSOACode
      MSOAID |->
          <<<<"M","S","O","A","I","D">>,
            <<"M","S","O","A","2","1","C","D">>,
            <<"M","S","O","A","1","1","C","D">>,
            <<"M","S","O","A","C","o","d","e">>>>,
    \* MSOAName: MSOAName, MSOA21NM, MSOA11NM, MSOANameText
      MSOAName |->
          <<<<"M","S","O","A","N","a","m","e">>,
            <<"M","S","O","A","2","1","N","M">>,
            <<"M","S","O","A","1","1","N","M">>,
            <<"M","S","O","A","N","a","m","e","T","e","x","t">>>>,
    \* LSOAID: LSOAID, LSOA21CD, LSOACode
      LSOAID |->
          <<<<"L","S","O","A","I","D">>,
            <<"L","S","O","A","2","1","C","D">>,
            <<"L","S","O","A","C","o","d","e">>>>,
    \* LSOAName: LSOAName, LSOA21NM, LSOANameText
      LSOAName |->
          <<<<"L","S","O","A","N","a","m","e">>,
            <<"L","S","O","A","2","1","N","M">>,
            <<"L","S","O","A","N","a","m","e","T","e","x","t">>>>,
    \* LSOA11ID: LSOA11ID, LSOA11CD
      LSOA11ID |->
          <<<<"L","S","O","A","1","1","I","D">>,
            <<"L","S","O","A","1","1","C","D">>>>,
    \* LSOA11Name: LSOA11Name, LSOA11NM
      LSOA11Name |->
          <<<<"L","S","O","A","1","1","N","a","m","e">>,
            <<"L","S","O","A","1","1","N","M">>>>,
    \* CountryName: CountryName, Country, Nation
      CountryName |->
          <<<<"C","o","u","n","t","r","y","N","a","m","e">>,
            <<"C","o","u","n","t","r","y">>,
            <<"N","a","t","i","o","n">>>> ]

GeoNames == DOMAIN name_map

-----------------------------------------------------------------------------
(* A process before its script has run a line *)

ProcessStart ==
    /\ step = "start" /\ log = <<>> /\ written = FALSE /\ out_df = <<>> /\ exit_code = "running"
    /\ gp_columns = <<>> /\ gp_raw = <<>> /\ gp_core = <<>>
    /\ cols = [k \in {"PracticeCode"} |-> None]
    /\ map_columns = <<>> /\ mapping = <<>>
    /\ PCD2_col = None /\ OUTCODE_col = None /\ map_slim = <<>>
    /\ picked = [n \in {"CountryName"} |-> None]
    /\ m1 = <<>> /\ m2 = <<>> /\ m2_eng = <<>>
    /\ df_columns = <<>> /\ todo = <<>> /\ all_found = TRUE
    /\ resolved_cols = [t \in {"LSOA_Code", "Health_Score", "Health_Rank", "Health_Decile"} |-> None]

\* the variables of the other scripts, before any of them runs
RestStart ==
    /\ files = <<>> /\ file_no = 0 /\ all_data = <<>>
    /\ prev_run = <<>>
    /\ argv = <<>> /\ verbose = 1 /\ level = "NOTSET"
    /\ reader = "none" /\ content = <<>> /\ tried = <<>> /\ decoded = "pending"
    /\ income_columns = <<>> /\ new_cols = <<>>

-----------------------------------------------------------------------------
(* Inputs of the pure functions *)

MaxPcLen == 6
PcChars == {"a", "B", "1", " "}

RECURSIVE StrsUpTo(_, _)
StrsUpTo(chars, n) ==
    IF n = 0 THEN {<<>>}
    ELSE LET shorter == StrsUpTo(chars, n - 1)
         IN  shorter \cup {<<c>> \o s : c \in chars, s \in {t \in shorter : Len(t) = n - 1}}

PcInputs == StrsUpTo(PcChars, MaxPcLen) \cup {<<"\t", "a", "b", "1", "\t", "\t", "2", "c", "d">>} \cup NonText

InitPostcode ==
    /\ pc_arg \in PcInputs
    /\ pc_ret = Pending
    /\ rs_cols = <<>> /\ rs_cands = <<>> /\ fc_ret = Pending /\ pk_ret = Pending
    /\ script = "none" /\ ProcessStart /\ RestStart

ApplyFormat ==
    /\ pc_ret = Pending
    /\ pc_ret' = format_uk_postcode(pc_arg)
    /\ UNCHANGED <<pc_arg, rsVars, restVars, procVars, gpVars, mapVars, frameVars, imdVars>>

NextPostcode == ApplyFormat

SpecPostcode == InitPostcode /\ [][NextPostcode]_vars

MaxCols == 2
MaxCands == 2

\* header texts that differ in case, in outer whitespace and in inner whitespace
RsNames == {<<"A","b">>, <<"a","b">>, <<"a","b"," ">>, <<" ","A"," "," ","b">>, <<"a"," ","b">>}

RECURSIVE SeqsUpTo(_, _)
SeqsUpTo(S, n) ==
    IF n = 0 THEN {<<>>}
    ELSE LET shorter == SeqsUpTo(S, n - 1)
         IN  shorter \cup {<<x>> \o s : x \in S, s \in {t \in shorter : Len(t) = n - 1}}

InitResolver ==
    /\ rs_cols \in SeqsUpTo(RsNames, MaxCols)
    /\ rs_cands \in SeqsUpTo(RsNames, MaxCands)
    /\ fc_ret = Pending /\ pk_ret = Pending
    /\ pc_arg = NaN /\ pc_ret = Pending
    /\ script = "none" /\ ProcessStart /\ RestStart

ApplyFindColumn ==
    /\ fc_ret = Pending
    /\ fc_ret' = find_column(rs_cols, rs_cands)
    /\ UNCHANGED <<rs_cols, rs_cands, pk_ret, pcVars, restVars, procVars, gpVars, mapVars, frameVars, imdVars>>

ApplyPickCol ==
    /\ pk_ret = Pending
    /\ pk_ret' = pick_col(rs_cols, rs_cands)
    /\ UNCHANGED <<rs_cols, rs_cands, fc_ret, pcVars, restVars, procVars, gpVars, mapVars, frameVars, imdVars>>

NextResolver == ApplyFindColumn \/ ApplyPickCol

SpecResolver == InitResolver /\ [][NextResolver]_vars

-----------------------------------------------------------------------------
(* Practiceinformation.py: run() and main() *)

MaxGP == 2
MaxMap == 2

\* GP.csv headers: all required columns, or all but one of them
GpHeaders ==
    <<<<"O","r","g","a","n","i","s","a","t","i","o","n"," ","C","o","d","e">>,
      <<"N","a","m","e">>,
      <<"A","d","d","r","e","s","s"," ","L","i","n","e"," ","1">>,
      <<"P","o","s","t","c","o","d","e">>,
      <<"S","t","a","t","u","s">>>>
GpHeaderLists ==
    {GpHeaders} \cup
    {SubSeq(GpHeaders, 1, k - 1) \o SubSeq(GpHeaders, k + 1, Len(GpHeaders)) : k \in DOMAIN GpHeaders}

\* cells of the postcode column as read_csv gives them: two postcodes of one
\* outcode, a cell of blanks, and a missing cell (empty, "NA" or "NaN" in the file)
GpPostcodeCells == {<<"a","1"," ","2","b","c">>, <<"A","1"," ","3","D","E">>, <<" ">>, NaN}

GpFixedCell(h) ==
    IF h = GpHeaders[1] THEN <<"P","1">>
    ELSE IF h = GpHeaders[2] THEN <<"D","r"," ","A">>
    ELSE IF h = GpHeaders[3] THEN <<"1"," ","H","i"," ","S","t">>
    ELSE <<"A","c","t","i","v","e">>

GpRows(H) ==
    {[j \in DOMAIN H |-> IF H[j] = GpHeaders[4] THEN p ELSE GpFixedCell(H[j])] :
        p \in GpPostcodeCells}

\* a GP.csv with three address line columns (lines 4 and 5 have no column)
AddrHeaders ==
    <<GpHeaders[1], GpHeaders[2], GpHeaders[3], <<"A","d","d","r","e","s","s"," ","L","i","n","e"," ","2">>, <<"A","d","d","r","e","s","s","3">>, GpHeaders[4], GpHeaders[5]>>

\* cells of an address line as read_csv gives them: a text, a text with outer
\* and doubled inner whitespace, a cell of blanks, and a missing cell
AddrCells == {<<"H","i">>, <<" ","H","i"," "," ","S","t"," ">>, <<" ">>, NaN}

AddrRows ==
    {<<GpFixedCell(GpHeaders[1]), GpFixedCell(GpHeaders[2]), a1, a2, a3, p, GpFixedCell(GpHeaders[5])>> :
        a1 \in AddrCells, a2 \in AddrCells, a3 \in AddrCells, p \in GpPostcodeCells}

\* cells of the mapping csv
PcdCells == {<<"A","1","2","B","C">>, <<"a","1"," ","3","d","e">>, NaN}
R1 == <<"R","1">>
R2sp == <<" ","R","2">>
Blank == <<" ", " ">>
EnglandLc == <<" ","e","n","g","l","a","n","d">>
Wales == <<"W","a","l","e","s">>

\* the mapping files read: header list and the rows that may stand under it
MapInputs ==
    { [columns |-> <<<<"P","C","D","2">>, <<"N","H","S","E","R","2","4","C","D">>, <<"C","o","u","n","t","r","y">>>>,
       rows |-> {<<p, g[1], g[2]>> : p \in PcdCells,
                    g \in {<<R1, EnglandLc>>, <<R2sp, Wales>>, <<Blank, NaN>>}}],
      [columns |-> <<<<"P","C","D","2">>, <<"O","u","t","c","o","d","e">>, <<"R","e","g","i","o","n","C","o","d","e">>, <<"C","o","u","n","t","r","y","N","a","m","e">>>>,
       rows |-> {<<p, o, g[1], g[2]>> : p \in PcdCells, o \in {<<"a", " ", "1">>, NaN},
                    g \in {<<R1, EnglandLc>>}} \cup
                {<<p, <<"a", " ", "1">>, R2sp, Wales>> : p \in PcdCells \ {NaN}}],
      [columns |-> <<<<"P","o","s","t","c","o","d","e">>, <<"R","e","g","i","o","n","C","o","d","e">>>>,
       rows |-> {<<p, r>> : p \in PcdCells \ {NaN}, r \in {R1, R2sp}}],
      [columns |-> <<<<"p","c","d","2"," ">>, <<"N","a","t","i","o","n">>>>,
       rows |-> {<<p, c>> : p \in PcdCells \ {NaN}, c \in {EnglandLc, Wales}}],
      [columns |-> <<<<"R","e","g","i","o","n","C","o","d","e">>, <<"C","o","u","n","t","r","y","N","a","m","e">>>>,
       rows |-> {<<R1, EnglandLc>>}] }

s_PCD2_fmt == <<"_","P","C","D","2","_","f","m","t">>
s_Outcode == <<"_","O","u","t","c","o","d","e">>
ENGLAND == <<"E","N","G","L","A","N","D">>

Fail(code, msg) ==
    /\ log' = Append(log, msg)
    /\ exit_code' = code
    /\ step' = "exit"

\* run(): pd.read_csv(gp_file, ...)
LoadGP ==
    /\ script = "gp_ons" /\ step = "start"
    /\ \E H \in GpHeaderLists : \E rows \in SeqsUpTo(GpRows(H), MaxGP) :
          /\ gp_columns' = H
          /\ gp_raw' = rows
    /\ step' = "gp_loaded"
    /\ UNCHANGED <<pcVars, rsVars, restVars, script, log, written, out_df, exit_code,
                   cols, gp_core, mapVars, frameVars, imdVars>>

\* gp_raw[c[k]].astype(str) of one row; "" for an optional column not resolved
GpCell(c, row, k) == astype_str(Cell(gp_columns, row, c[k]))
GpOptional(c, row, k) == IF c[k] # None THEN GpCell(c, row, k) ELSE <<>>

\* one row of gp_core; gi stands for the row's place in GP.csv
gp_row(c, i) ==
    LET row == gp_raw[i]
        PostCode == format_uk_postcode(GpCell(c, row, "PostCode"))
    IN  [gi |-> i,
         PracticeCode |-> GpCell(c, row, "PracticeCode"),
         PracticeName |-> GpCell(c, row, "PracticeName"),
         Address |-> build_address(<<GpOptional(c, row, "Addr1"), GpOptional(c, row, "Addr2"),
                                      GpOptional(c, row, "Addr3"), GpOptional(c, row, "Addr4"),
                                      GpOptional(c, row, "Addr5"), PostCode>>),
         PostCode |-> PostCode,
         Status |-> IF c["Status"] # None THEN GpCell(c, row, "Status") ELSE NaN]

\* cols = {out: pick_col(gp_raw, cands) for out, cands in want_map.items()}, for
\* each header list GP.csv may have
GpResolution ==
    [H \in GpHeaderLists \cup {AddrHeaders} |->
        [k \in DOMAIN want_map |-> pick_col(H, want_map[k])]]

\* run(): the GP column mapping, the required-column check, gp and gp_core
ResolveGP ==
    /\ script = "gp_ons" /\ step = "gp_loaded"
    /\ LET c == GpResolution[gp_columns]
           missing == SelectSeq(required, LAMBDA k : c[k] = None)
       IN  /\ cols' = c
           /\ IF missing # <<>>
              THEN /\ Fail("2", "ERROR Missing required columns in GP.csv")
                   /\ UNCHANGED gp_core
              ELSE /\ gp_core' = [i \in DOMAIN gp_raw |-> gp_row(c, i)]
                   /\ step' = "gp_core"
                   /\ UNCHANGED <<log, exit_code>>
    /\ UNCHANGED <<pcVars, rsVars, restVars, script, written, out_df,
                   gp_columns, gp_raw, mapVars, frameVars, imdVars>>

\* run(): pd.read_csv(map_file, ...)
LoadMapping ==
    /\ script = "gp_ons" /\ step = "gp_core"
    /\ \E f \in MapInputs : \E rows \in SeqsUpTo(f.rows, MaxMap) :
          /\ map_columns' = f.columns
          /\ mapping' = rows
    /\ step' = "map_loaded"
    /\ UNCHANGED <<pcVars, rsVars, restVars, script, log, written, out_df, exit_code, gpVars,
                   PCD2_col, OUTCODE_col, picked, map_slim, frameVars, imdVars>>

\* one row of map_slim; mi stands for the row's place in the mapping file, and
\* geo[n] is the row's cell under the header resolved for the field n
map_slim_row(j, pcd, oc, geo) ==
    LET fmt == format_uk_postcode(Cell(map_columns, mapping[j], pcd))
    IN  [mi |-> j,
         PCD2_fmt |-> fmt,
         Outcode |-> IF oc = None THEN str_split_first(fmt)
                     ELSE str_upper_nospace(Cell(map_columns, mapping[j], oc)),
         geo |-> [n \in {x \in GeoNames : geo[x] # None} |->
                    Cell(map_columns, mapping[j], geo[n])]]

\* PCD2_col, OUTCODE_col and picked as run() resolves them, for each header list
\* the mapping file may have; the columns run() has added by then are in the frame
MapResolution ==
    [H \in {f.columns : f \in MapInputs} |->
        LET with_fmt == H \o <<s_PCD2_fmt>>
            oc == pick_col(with_fmt, OUTCODE_candidates)
            with_oc == IF oc = None THEN with_fmt \o <<s_Outcode>> ELSE with_fmt
        IN  [pcd |-> pick_col(H, PCD2_candidates),
             oc |-> oc,
             geo |-> [n \in GeoNames |-> pick_col(with_oc, name_map[n])]]]

\* run(): the mapping's postcode, outcode and geography columns, map_slim
PrepareMapping ==
    /\ script = "gp_ons" /\ step = "map_loaded"
    /\ LET pcd == MapResolution[map_columns].pcd
           oc == MapResolution[map_columns].oc
           geo == MapResolution[map_columns].geo
       IN  /\ PCD2_col' = pcd
           /\ IF pcd = None
              THEN /\ Fail("3", "ERROR Could not find a postcode column in mapping")
                   /\ UNCHANGED <<OUTCODE_col, picked, map_slim>>
              ELSE /\ OUTCODE_col' = IF oc = None THEN s_Outcode ELSE oc
                   /\ picked' = geo
                   /\ map_slim' = [j \in DOMAIN mapping |-> map_slim_row(j, pcd, oc, geo)]
                   /\ step' = "map_slim"
                   /\ UNCHANGED <<log, exit_code>>
    /\ UNCHANGED <<pcVars, rsVars, restVars, script, written, out_df, gpVars,
                   map_columns, mapping, frameVars, imdVars>>

\* Series.apply gives a float64 column when every result is missing
AllMissing(keys) == keys # <<>> /\ \A j \in DOMAIN keys : keys[j] = NaN

\* main(): except Exception: logger.exception(...); sys.exit(1), for the error the
\* .str accessor raises on mapping["_PCD2_fmt"] when pandas inferred it as float64.
\* Where the column keeps the object dtype run() goes on: both outcomes are kept.
RaiseOnStrAccessor ==
    /\ script = "gp_ons" /\ step = "map_loaded"
    /\ MapResolution[map_columns].pcd # None
    /\ MapResolution[map_columns].oc = None
    /\ AllMissing([j \in DOMAIN mapping |->
            format_uk_postcode(Cell(map_columns, mapping[j], MapResolution[map_columns].pcd))])
    /\ Fail("1", "ERROR Failed")
    /\ UNCHANGED <<pcVars, rsVars, restVars, script, written, out_df, gpVars, mapVars, frameVars, imdVars>>

\* the same, for the error merge raises on a text key against a float64 key
RaiseOnMergeKeys ==
    /\ script = "gp_ons" /\ step = "map_slim"
    /\ gp_core # <<>>
    /\ AllMissing([j \in DOMAIN map_slim |-> map_slim[j].PCD2_fmt])
    /\ Fail("1", "ERROR Failed")
    /\ UNCHANGED <<pcVars, rsVars, restVars, script, written, out_df, gpVars, mapVars, frameVars, imdVars>>

\* the geography cells of a row without a match
NoGeo == [n \in {x \in GeoNames : picked[x] # None} |-> NaN]

\* the postcode merge as an inner join: a left row without a match is dropped
merge_postcode_inner(left, right) ==
    Flatten([i \in DOMAIN left |->
        LET hits == SelectSeq(right, LAMBDA r : r.PCD2_fmt = left[i].PostCode)
        IN  [k \in DOMAIN hits |-> left[i] @@ hits[k]]])

\* DataFrame.merge(how="left"): the left rows in order, each once per right row
\* with an equal key (a missing key equals a missing key) in the right rows'
\* order, or once with missing right columns
merge_postcode(left, right) ==
    Flatten([i \in DOMAIN left |->
        LET hits == SelectSeq(right, LAMBDA r : r.PCD2_fmt = left[i].PostCode)
        IN  IF hits = <<>>
            THEN <<left[i] @@ [mi |-> 0, PCD2_fmt |-> NaN, Outcode |-> NaN, geo |-> NoGeo]>>
            ELSE [k \in DOMAIN hits |-> left[i] @@ hits[k]]])

\* no deduplication of the fallback side
keep_duplicates(rows, seen) == rows

\* the last row of each key is kept
RECURSIVE drop_duplicates_keep_last(_, _)
drop_duplicates_keep_last(rows, seen) ==
    IF rows = <<>> THEN <<>>
    ELSE IF \E k \in 2..Len(rows) : rows[k].Outcode = Head(rows).Outcode
         THEN drop_duplicates_keep_last(Tail(rows), seen)
    ELSE <<Head(rows)>> \o drop_duplicates_keep_last(Tail(rows), seen)

\* a deduplication whose outcome differs from one run to the next
drop_duplicates_by_run(rows, seen) ==
    IF prev_run = <<>> THEN keep_duplicates(rows, seen) ELSE drop_duplicates_keep_last(rows, seen)

\* DataFrame.drop_duplicates("_Outcode"): the first row of each key is kept
RECURSIVE drop_duplicates(_, _)
drop_duplicates(rows, seen) ==
    IF rows = <<>> THEN <<>>
    ELSE IF Head(rows).Outcode \in seen THEN drop_duplicates(Tail(rows), seen)
    ELSE <<Head(rows)>> \o drop_duplicates(Tail(rows), seen \cup {Head(rows).Outcode})

merge_outcode(left, right) ==
    Flatten([i \in DOMAIN left |->
        LET key == str_split_first(left[i].PostCode)
            hits == SelectSeq(right, LAMBDA r : r.Outcode = key)
        IN  IF hits = <<>>
            THEN <<left[i] @@ [Outcode_gp |-> key, oi |-> 0, Outcode_oc |-> NaN, geo_oc |-> NoGeo]>>
            ELSE [k \in DOMAIN hits |->
                    left[i] @@ [Outcode_gp |-> key, oi |-> hits[k].mi,
                                Outcode_oc |-> hits[k].Outcode, geo_oc |-> hits[k].geo]]])

\* run(): m1 = gp_core.merge(map_slim, how="left", left_on="PostCode", right_on="_PCD2_fmt")
MergePostcode ==
    /\ script = "gp_ons" /\ step = "map_slim"
    /\ m1' = merge_postcode(gp_core, map_slim)
    /\ step' = "m1"
    /\ UNCHANGED <<pcVars, rsVars, restVars, script, log, written, out_df, exit_code,
                   gpVars, mapVars, m2, m2_eng, imdVars>>

\* run(): m1["_Outcode_gp"], m2 = m1.merge(map_slim...drop_duplicates("_Outcode"), how="left")
OutcodeFallback ==
    /\ script = "gp_ons" /\ step = "m1"
    /\ m2' = merge_outcode(m1, drop_duplicates(map_slim, {}))
    /\ step' = "m2"
    /\ UNCHANGED <<pcVars, rsVars, restVars, script, log, written, out_df, exit_code,
                   gpVars, mapVars, m1, m2_eng, imdVars>>

\* the coalesced value of the field out_name in the row r of m2
coalesce(r, out_name) ==
    IF picked[out_name] = None THEN NaN
    ELSE first_nonnull(<<r.geo[out_name], r.geo_oc[out_name]>>)

\* run(): for out_name, col_pc in picked.items(): m2[out_name] = ...
Coalesce ==
    /\ script = "gp_ons" /\ step = "m2"
    /\ m2' = [i \in DOMAIN m2 |-> m2[i] @@ [out |-> [n \in GeoNames |-> coalesce(m2[i], n)]]]
    /\ step' = "coalesced"
    /\ UNCHANGED <<pcVars, rsVars, restVars, script, log, written, out_df, exit_code,
                   gpVars, mapVars, m1, m2_eng, imdVars>>

\* the mask taken on the postcode match's country, not the coalesced one
mask_england_uncoalesced(r) ==
    Upper(Strip(astype_str(r.geo.CountryName))) = ENGLAND

\* country_norm == "ENGLAND"
mask_england(r) == Upper(Strip(astype_str(r.out.CountryName))) = ENGLAND

\* run(): the England filter, or no filter without a country column
FilterEngland ==
    /\ script = "gp_ons" /\ step = "coalesced"
    /\ m2_eng' = IF picked.CountryName # None THEN SelectSeq(m2, mask_england) ELSE m2
    /\ step' = "filtered"
    /\ UNCHANGED <<pcVars, rsVars, restVars, script, log, written, out_df, exit_code,
                   gpVars, mapVars, m1, m2, imdVars>>

\* final_cols holding the resolved geography fields only
final_row_picked_only(r) ==
    [gi |-> r.gi, PracticeCode |-> r.PracticeCode, PracticeName |-> r.PracticeName,
     Address |-> r.Address, PostCode |-> r.PostCode, Status |-> r.Status,
     out |-> [n \in {x \in GeoNames : picked[x] # None} |-> r.out[n]]]

\* m2_eng[final_cols] of one row; gi stands for the row's label
final_row(r) ==
    [gi |-> r.gi, PracticeCode |-> r.PracticeCode, PracticeName |-> r.PracticeName,
     Address |-> r.Address, PostCode |-> r.PostCode, Status |-> r.Status, out |-> r.out]

\* run(): out_df = m2_eng[final_cols]; out_df.to_csv(out_file, ...)
WriteOutput ==
    /\ script = "gp_ons" /\ step = "filtered"
    /\ out_df' = [i \in DOMAIN m2_eng |-> final_row(m2_eng[i])]
    /\ written' = TRUE
    /\ exit_code' = "0"
    /\ step' = "exit"
    /\ UNCHANGED <<pcVars, rsVars, restVars, script, log, gpVars, mapVars, frameVars, imdVars>>

-----------------------------------------------------------------------------
(* HealthDepriviation_2019.py: main() *)

\* COL_CANDIDATES: target column -> candidate headers, in list order
COL_CANDIDATES ==
    \* LSOA_Code: LSOA code (2011), LSOA code, LSOA Code (2011), LSOA Code
    [ LSOA_Code |->
          <<<<"L","S","O","A"," ","c","o","d","e"," ","(","2","0","1","1",")">>,
            <<"L","S","O","A"," ","c","o","d","e">>,
            <<"L","S","O","A"," ","C","o","d","e"," ","(","2","0","1","1",")">>,
            <<"L","S","O","A"," ","C","o","d","e">>>>,
    \* Health_Score: Health Deprivation and Disability Score, Health Deprivation & Disability Score, Health Deprivation/Disability Score
      Health_Score |->
          <<<<"H","e","a","l","t","h"," ","D","e","p","r","i","v","a","t","i","o","n"," ","a","n","d"," ","D","i","s","a","b","i","l","i","t","y"," ","S","c","o","r","e">>,
            <<"H","e","a","l","t","h"," ","D","e","p","r","i","v","a","t","i","o","n"," ","&"," ","D","i","s","a","b","i","l","i","t","y"," ","S","c","o","r","e">>,
            <<"H","e","a","l","t","h"," ","D","e","p","r","i","v","a","t","i","o","n","/","D","i","s","a","b","i","l","i","t","y"," ","S","c","o","r","e">>>>,
    \* Health_Rank: Health Deprivation and Disability Rank (where 1 is most deprived), Health Deprivation & Disability Rank (where 1 is most deprived), Health Deprivation/Disability Rank (where 1 is most deprived)
      Health_Rank |->
          <<<<"H","e","a","l","t","h"," ","D","e","p","r","i","v","a","t","i","o","n"," ","a","n","d"," ","D","i","s","a","b","i","l","i","t","y"," ","R","a","n","k"," ","(","w","h","e","r","e"," ","1"," ","i","s"," ","m","o","s","t"," ","d","e","p","r","i","v","e","d",")">>,
            <<"H","e","a","l","t","h"," ","D","e","p","r","i","v","a","t","i","o","n"," ","&"," ","D","i","s","a","b","i","l","i","t","y"," ","R","a","n","k"," ","(","w","h","e","r","e"," ","1"," ","i","s"," ","m","o","s","t"," ","d","e","p","r","i","v","e","d",")">>,
            <<"H","e","a","l","t","h"," ","D","e","p","r","i","v","a","t","i","o","n","/","D","i","s","a","b","i","l","i","t","y"," ","R","a","n","k"," ","(","w","h","e","r","e"," ","1"," ","i","s"," ","m","o","s","t"," ","d","e","p","r","i","v","e","d",")">>>>,
    \* Health_Decile: Health Deprivation and Disability Decile (where 1 is most deprived 10% of LSOAs), Health Deprivation & Disability Decile (where 1 is most deprived 10% of LSOAs), Health Deprivation/Disability Decile (where 1 is most deprived 10% of LSOAs)
      Health_Decile |->
          <<<<"H","e","a","l","t","h"," ","D","e","p","r","i","v","a","t","i","o","n"," ","a","n","d"," ","D","i","s","a","b","i","l","i","t","y"," ","D","e","c","i","l","e"," ","(","w","h","e","r","e"," ","1"," ","i","s"," ","m","o","s","t"," ","d","e","p","r","i","v","e","d"," ","1","0","%"," ","o","f"," ","L","S","O","A","s",")">>,
            <<"H","e","a","l","t","h"," ","D","e","p","r","i","v","a","t","i","o","n"," ","&"," ","D","i","s","a","b","i","l","i","t","y"," ","D","e","c","i","l","e"," ","(","w","h","e","r","e"," ","1"," ","i","s"," ","m","o","s","t"," ","d","e","p","r","i","v","e","d"," ","1","0","%"," ","o","f"," ","L","S","O","A","s",")">>,
            <<"H","e","a","l","t","h"," ","D","e","p","r","i","v","a","t","i","o","n","/","D","i","s","a","b","i","l","i","t","y"," ","D","e","c","i","l","e"," ","(","w","h","e","r","e"," ","1"," ","i","s"," ","m","o","s","t"," ","d","e","p","r","i","v","e","d"," ","1","0","%"," ","o","f"," ","L","S","O","A","s",")">>>> ]

Targets == <<"LSOA_Code", "Health_Score", "Health_Rank", "Health_Decile">>

\* a header as the file may hold it for a target: the first candidate, the first
\* candidate between blanks, the second candidate in lowercase, or no header
HeaderChoices(t) ==
    { <<COL_CANDIDATES[t][1]>>,
      << <<" ">> \o COL_CANDIDATES[t][1] \o <<" ">> >>,
      <<Lower(COL_CANDIDATES[t][2])>>,
      <<>> }

ImdHeaderLists ==
    {a \o b \o c \o d : a \in HeaderChoices("LSOA_Code"), b \in HeaderChoices("Health_Score"),
                         c \in HeaderChoices("Health_Rank"), d \in HeaderChoices("Health_Decile")}

\* main(): if not INPUT_FILE.exists(): logging.error(...); return
InputMissing ==
    /\ script = "imd" /\ step = "start"
    /\ log' = Append(log, "ERROR Input file not found")
    /\ exit_code' = "0"
    /\ step' = "exit"
    /\ UNCHANGED <<pcVars, rsVars, restVars, script, written, out_df, gpVars, mapVars, frameVars, imdVars>>

\* main(): pd.read_csv(INPUT_FILE, ...); df.rename(columns=lambda c: c.strip())
LoadIMD ==
    /\ script = "imd" /\ step = "start"
    /\ \E H \in ImdHeaderLists : df_columns' = [j \in DOMAIN H |-> Strip(H[j])]
    /\ todo' = Targets
    /\ step' = "resolving"
    /\ UNCHANGED <<pcVars, rsVars, restVars, script, log, written, out_df, exit_code,
                   gpVars, mapVars, frameVars, resolved_cols, all_found>>

\* main(): one turn of the loop over COL_CANDIDATES.items()
ResolveTarget ==
    /\ script = "imd" /\ step = "resolving" /\ todo # <<>>
    /\ LET target == Head(todo)
           found_col == find_column(df_columns, COL_CANDIDATES[target])
       IN  IF found_col = None \/ found_col = <<>>
           THEN /\ log' = Append(log, "ERROR Could not find a source column")
                /\ all_found' = FALSE
                /\ UNCHANGED resolved_cols
           ELSE /\ resolved_cols' = [resolved_cols EXCEPT ![target] = found_col]
                /\ UNCHANGED <<log, all_found>>
    /\ todo' = Tail(todo)
    /\ UNCHANGED <<pcVars, rsVars, restVars, script, step, written, out_df, exit_code,
                   gpVars, mapVars, frameVars, df_columns>>

\* main(): if all_found: ... final_df.to_csv(OUT_FILE, index=False)
FinishIMD ==
    /\ script = "imd" /\ step = "resolving" /\ todo = <<>>
    /\ IF all_found
       THEN /\ written' = TRUE
            /\ out_df' = [j \in DOMAIN Targets |-> resolved_cols[Targets[j]]]
       ELSE UNCHANGED <<written, out_df>>
    /\ exit_code' = "0"
    /\ step' = "exit"
    /\ UNCHANGED <<pcVars, rsVars, restVars, script, log, gpVars, mapVars, frameVars, imdVars>>

-----------------------------------------------------------------------------
(* gppatientregister.py *)

Digits == <<"0","1","2","3","4","5","6","7","8","9">>
IsDigit(c) == \E d \in DOMAIN Digits : Digits[d] = c
DigitVal(c) == (CHOOSE d \in DOMAIN Digits : Digits[d] = c) - 1
IsDigits(s) == s # <<>> /\ \A i \in DOMAIN s : IsDigit(s[i])

\* int(s) of a text of decimal digits
RECURSIVE DigitsValue(_)
DigitsValue(s) ==
    IF s = <<>> THEN 0
    ELSE 10 * DigitsValue(SubSeq(s, 1, Len(s) - 1)) + DigitVal(s[Len(s)])

\* ord(c) of the characters that practice codes and periods are made of
Ord(c) ==
    IF IsDigit(c) THEN 48 + DigitVal(c)
    ELSE IF \E i \in DOMAIN UpperAlpha : UpperAlpha[i] = c
         THEN 64 + (CHOOSE i \in DOMAIN UpperAlpha : UpperAlpha[i] = c)
    ELSE IF \E i \in DOMAIN LowerAlpha : LowerAlpha[i] = c
         THEN 96 + (CHOOSE i \in DOMAIN LowerAlpha : LowerAlpha[i] = c)
    ELSE 32

\* a < b of two Python str
RECURSIVE StrLess(_, _)
StrLess(a, b) ==
    IF b = <<>> THEN FALSE
    ELSE IF a = <<>> THEN TRUE
    ELSE IF Head(a) = Head(b) THEN StrLess(Tail(a), Tail(b))
    ELSE Ord(Head(a)) < Ord(Head(b))

\* %b: the month abbreviations, matched without regard to case
MonthAbbr ==
    <<<<"j","a","n">>, <<"f","e","b">>, <<"m","a","r">>, <<"a","p","r">>, <<"m","a","y">>, <<"j","u","n">>,
      <<"j","u","l">>, <<"a","u","g">>, <<"s","e","p">>, <<"o","c","t">>, <<"n","o","v">>, <<"d","e","c">>>>
MonthNum(m) == IF m < 10 THEN <<"0", Digits[m + 1]>> ELSE <<"1", Digits[m - 9]>>

NaT == <<"NaT">>

\* datetime.strptime(s, "%d-%b-%y").strftime("%Y%m"), NaT when s has not the format
strptime_d_b_y(s) ==
    IF /\ Len(s) = 9 /\ s[3] = "-" /\ s[7] = "-"
       /\ IsDigits(SubSeq(s, 1, 2)) /\ DigitsValue(SubSeq(s, 1, 2)) \in 1..31
       /\ IsDigits(SubSeq(s, 8, 9))
       /\ \E m \in DOMAIN MonthAbbr : MonthAbbr[m] = Lower(SubSeq(s, 4, 6))
    THEN LET m == CHOOSE k \in DOMAIN MonthAbbr : MonthAbbr[k] = Lower(SubSeq(s, 4, 6))
             yy == SubSeq(s, 8, 9)
         IN  (IF DigitsValue(yy) < 69 THEN <<"2","0">> ELSE <<"1","9">>) \o yy \o MonthNum(m)
    ELSE NaT

\* datetime.strptime(s, "%Y-%m-%d").strftime("%Y%m"), NaT when s has not the format
strptime_Y_m_d(s) ==
    IF /\ Len(s) = 10 /\ s[5] = "-" /\ s[8] = "-"
       /\ IsDigits(SubSeq(s, 1, 4)) /\ IsDigits(SubSeq(s, 6, 7)) /\ IsDigits(SubSeq(s, 9, 10))
       /\ DigitsValue(SubSeq(s, 6, 7)) \in 1..12 /\ DigitsValue(SubSeq(s, 9, 10)) \in 1..31
    THEN SubSeq(s, 1, 4) \o SubSeq(s, 6, 7)
    ELSE NaT

\* parse_yearmonth of one cell: the formats tried one after the other on
\* str(cell).strip(); NaT stands for the ValueError raised for the file
parse_yearmonth(cell) ==
    LET t == Strip(astype_str(cell))
    IN  IF strptime_d_b_y(t) # NaT THEN strptime_d_b_y(t) ELSE strptime_Y_m_d(t)

str_replace_comma(t) == SelectSeq(t, LAMBDA c : c # ",")

\* pd.to_numeric of one text, then astype to an integer type: ok is FALSE where
\* the text is no number, and for a missing value; a decimal loses its fraction
to_numeric(t) ==
    LET dots == {i \in DOMAIN t : t[i] = "."}
        whole == IF dots = {} THEN t ELSE SubSeq(t, 1, Min(dots) - 1)
        frac == IF dots = {} THEN <<>> ELSE SubSeq(t, Min(dots) + 1, Len(t))
    IN  IF IsDigits(whole) /\ (frac = <<>> \/ IsDigits(frac))
        THEN [ok |-> TRUE, value |-> DigitsValue(whole)]
        ELSE [ok |-> FALSE, value |-> 0]

\* to_int of one cell: pd.to_numeric(cleaned, errors="raise").astype("int64"),
\* cleaned being str(cell) without commas, stripped; ok is FALSE where it raises
to_int(cell) == to_numeric(Strip(str_replace_comma(astype_str(cell))))

\* read_one_csv raising on a date only, a count that is no number read as 0
read_one_csv_raises_on_dates(f) ==
    \E i \in DOMAIN f : parse_yearmonth(f[i][1]) = NaT

\* read_one_csv raises: a date or a count of the file cannot be parsed
read_one_csv_raises(f) ==
    \E i \in DOMAIN f : parse_yearmonth(f[i][1]) = NaT \/ ~to_int(f[i][3]).ok

\* read_one_csv: df[["YearMonth", "PracticeCode", "NumberOfPatients"]]
read_one_csv(f) ==
    [i \in DOMAIN f |-> [YearMonth |-> parse_yearmonth(f[i][1]),
                         PracticeCode |-> f[i][2],
                         NumberOfPatients |-> to_int(f[i][3]).value]]

RECURSIVE SumOf(_, _)
SumOf(rows, key) ==
    IF rows = <<>> THEN 0
    ELSE (IF <<Head(rows).YearMonth, Head(rows).PracticeCode>> = key
          THEN Head(rows).NumberOfPatients ELSE 0) + SumOf(Tail(rows), key)

\* the order of sort_values(["YearMonth", "PracticeCode"])
KeyLess(a, b) == StrLess(a[1], b[1]) \/ (a[1] = b[1] /\ StrLess(a[2], b[2]))

RECURSIVE sort_values(_)
sort_values(keys) ==
    IF keys = {} THEN <<>>
    ELSE LET first == CHOOSE a \in keys : \A b \in keys \ {a} : KeyLess(a, b)
         IN  <<first>> \o sort_values(keys \ {first})

\* groupby(["YearMonth", "PracticeCode"]): rows with a missing key are left out
groupby_keys(combined) ==
    {<<combined[i].YearMonth, combined[i].PracticeCode>> :
        i \in {k \in DOMAIN combined : combined[k].PracticeCode # NaN}}

\* aggregate_all: pd.concat(parts), groupby(...).agg(sum), sort_values(...)
aggregate_all(frames) ==
    LET combined == Flatten(frames)
        keys == sort_values(groupby_keys(combined))
    IN  [k \in DOMAIN keys |-> [YearMonth |-> keys[k][1], PracticeCode |-> keys[k][2],
                                NumberOfPatients |-> SumOf(combined, keys[k])]]

MaxFiles == 2

\* the rows of the monthly files: EXTRACT_DATE, CODE, NUMBER_OF_PATIENTS
RegRow ==
    [ a1200 |-> <<<<"0","1","-","S","e","p","-","2","3">>, <<"A","0","0","1">>, <<"1",",","2","0","0">>>>,
      a300 |-> <<<<"0","1","-","S","e","p","-","2","3">>, <<"A","0","0","1">>, <<"3","0","0">>>>,
      b7 |-> <<<<"2","0","2","3","-","1","0","-","0","1">>, <<"B","0","0","2">>, <<" ","7"," ">>>>,
      a5oct |-> <<<<"0","1","-","O","c","t","-","2","3">>, <<"A","0","0","1">>, <<"5">>>>,
      b300 |-> <<<<"0","1","-","S","e","p","-","2","3">>, <<"B","0","0","2">>, <<"3","0","0">>>>,
      bNA |-> <<<<"0","1","-","S","e","p","-","2","3">>, <<"B","0","0","2">>, <<"N","/","A">>>>,
      badDate |-> <<<<"b","a","d">>, <<"A","0","0","1">>, <<"5">>>>,
      noDate |-> <<NaN, <<"A","0","0","1">>, <<"5">>>>,
      noCode |-> <<<<"0","1","-","S","e","p","-","2","3">>, NaN, <<"5">>>>,
      bDec |-> <<<<"0","1","-","S","e","p","-","2","3">>, <<"B","0","0","2">>, <<"1",".","5">>>>,
      noCount |-> <<<<"0","1","-","S","e","p","-","2","3">>, <<"A","0","0","1">>, NaN>> ]

\* the files gp_patient_registration_*.csv may be
RegFiles ==
    { <<RegRow.a1200, RegRow.a300>>, <<RegRow.b7>>, <<RegRow.a5oct, RegRow.b300>>,
      <<RegRow.bNA>>, <<RegRow.badDate>>, <<RegRow.noDate>>, <<RegRow.noCode>>,
      <<RegRow.bDec>>, <<RegRow.noCount>>, <<>> }

\* main(): files = sorted(SRC.glob(...)); FileNotFoundError without a file
Discover ==
    /\ script = "register" /\ step = "start"
    /\ files' \in SeqsUpTo(RegFiles, MaxFiles)
    /\ IF files' = <<>>
       THEN Fail("1", "Traceback FileNotFoundError")
       ELSE step' = "reading" /\ UNCHANGED <<log, exit_code>>
    /\ UNCHANGED <<pcVars, rsVars, script, written, out_df, gpVars, mapVars, frameVars,
                   imdVars, file_no, all_data, otherVars>>

\* aggregate_all(): one turn of the loop over the files; an exception is logged
\* and raised again, and ends the process
ReadOneCsv ==
    /\ script = "register" /\ step = "reading" /\ Len(all_data) < Len(files)
    /\ LET f == files[Len(all_data) + 1]
       IN  IF read_one_csv_raises(f)
           THEN Fail("1", "ERROR Failed to process file") /\ UNCHANGED all_data
           ELSE /\ all_data' = Append(all_data, read_one_csv(f))
                /\ UNCHANGED <<log, exit_code, step>>
    /\ UNCHANGED <<pcVars, rsVars, script, written, out_df, gpVars, mapVars, frameVars,
                   imdVars, files, file_no, otherVars>>

\* aggregate_all(): concat and aggregate; main(): agg.to_csv(out_path, index=False)
AggregateAndWrite ==
    /\ script = "register" /\ step = "reading" /\ Len(all_data) = Len(files)
    /\ out_df' = aggregate_all(all_data)
    /\ written' = TRUE
    /\ exit_code' = "0"
    /\ step' = "exit"
    /\ UNCHANGED <<pcVars, rsVars, script, log, gpVars, mapVars, frameVars, imdVars,
                   folderVars, otherVars>>

-----------------------------------------------------------------------------
(* gpcountwithage.py *)

IsLetter(c) == (\E i \in DOMAIN UpperAlpha : UpperAlpha[i] = c)
                   \/ (\E i \in DOMAIN LowerAlpha : LowerAlpha[i] = c)

\* s.startswith(prefix)
StartsWith(s, prefix) == Len(prefix) <= Len(s) /\ SubSeq(s, 1, Len(prefix)) = prefix

\* sub in s
Contains(s, sub) == \E i \in 0..(Len(s) - Len(sub)) : SubSeq(s, i + 1, i + Len(sub)) = sub

\* s.replace(old, new)
RECURSIVE Replace(_, _, _)
Replace(s, old, new) ==
    IF s = <<>> THEN <<>>
    ELSE IF StartsWith(s, old) THEN new \o Replace(SubSeq(s, Len(old) + 1, Len(s)), old, new)
    ELSE <<Head(s)>> \o Replace(Tail(s), old, new)

\* month_map: the month names, in the order of their numbers
month_map ==
    <<<<"J","a","n","u","a","r","y">>,
      <<"F","e","b","r","u","a","r","y">>,
      <<"M","a","r","c","h">>,
      <<"A","p","r","i","l">>,
      <<"M","a","y">>,
      <<"J","u","n","e">>,
      <<"J","u","l","y">>,
      <<"A","u","g","u","s","t">>,
      <<"S","e","p","t","e","m","b","e","r">>,
      <<"O","c","t","o","b","e","r">>,
      <<"N","o","v","e","m","b","e","r">>,
      <<"D","e","c","e","m","b","e","r">>>>

\* _extract_year_month_from_filename: the first match of ([A-Za-z]+)\s(\d{4}),
\* its word in title case looked up in month_map; None without a match or a month
extract_year_month_from_filename(filename) ==
    LET hits == {i \in 2..(Len(filename) - 4) :
                    /\ IsLetter(filename[i - 1]) /\ IsSpace(filename[i])
                    /\ IsDigits(SubSeq(filename, i + 1, i + 4))}
    IN  IF hits = {} THEN None
        ELSE LET i == Min(hits)
                 from == Min({j \in 1..(i - 1) : \A k \in j..(i - 1) : IsLetter(filename[k])})
                 word == SubSeq(filename, from, i - 1)
                 title == Upper(SubSeq(word, 1, 1)) \o Lower(Tail(word))
             IN  IF \E m \in DOMAIN month_map : month_map[m] = title
                 THEN SubSeq(filename, i + 1, i + 4)
                          \o MonthNum(CHOOSE m \in DOMAIN month_map : month_map[m] = title)
                 ELSE None

s_TOTAL_GP_HC == <<"T","O","T","A","L","_","G","P","_","H","C","_">>

\* main(): the first header holding both "PRAC" and "CODE", without regard to case
practice_col(actual_columns) ==
    LET found == {j \in DOMAIN actual_columns :
                     Contains(Upper(actual_columns[j]), <<"P","R","A","C">>)
                         /\ Contains(Upper(actual_columns[j]), <<"C","O","D","E">>)}
    IN  IF found = {} THEN 0 ELSE Min(found)

\* main(): age_cols_in_this_file, as places in the header list
age_cols(actual_columns) ==
    {j \in DOMAIN actual_columns : StartsWith(actual_columns[j], s_TOTAL_GP_HC)}

\* main(): clean_name of an age column
clean_name(col) ==
    Replace(Replace(Replace(Replace(Replace(col, s_TOTAL_GP_HC, <<>>), <<"_">>, <<"-">>),
                            <<"U","2","5">>, <<"<","2","5">>), <<"7","5","O","V">>, <<"7","5","+">>), <<"U","N","K","N","O","W","N">>, <<"U","n","k","n","o","w","n">>)

\* pd.to_numeric(df[col], errors='coerce').fillna(0).astype(int) of one cell,
\* which _read_csv has stripped
to_numeric_coerce(cell) == IF cell = NaN THEN 0 ELSE to_numeric(Strip(cell)).value

RECURSIVE SumSet(_, _)
SumSet(f, S) ==
    IF S = {} THEN 0
    ELSE LET x == CHOOSE y \in S : TRUE IN f[x] + SumSet(f, S \ {x})

\* main(): the frame of one file: the age columns as numbers under their clean
\* names, TotalGP their sum, YearMonth from the file name
wf_frame(f, year_month) ==
    LET H == [j \in DOMAIN f.columns |-> Strip(f.columns[j])]
        pj == practice_col(H)
    IN  [i \in DOMAIN f.rows |->
            LET hc == [j \in age_cols(H) |-> to_numeric_coerce(f.rows[i][j])]
            IN  [YearMonth |-> year_month,
                 PracticeCode |-> IF f.rows[i][pj] = NaN THEN NaN ELSE Strip(f.rows[i][pj]),
                 bands |-> [n \in {clean_name(H[j]) : j \in age_cols(H)} |->
                               hc[CHOOSE j \in age_cols(H) : clean_name(H[j]) = n]],
                 TotalGP |-> SumSet(hc, age_cols(H))]]

\* final_df.fillna with 1 for the age bands a file has not
fillna_one(r, n) == IF n \in DOMAIN r.bands THEN r.bands[n] ELSE 1

\* final_df.fillna(0) of the age band n of a row: 0 where the row's file has not the band
fillna(r, n) == IF n \in DOMAIN r.bands THEN r.bands[n] ELSE 0

\* main(): pd.concat(all_data), final_df[final_cols], final_df.fillna(0)
wf_final(frames) ==
    LET combined == Flatten(frames)
        all_clean_age_cols == UNION {DOMAIN combined[i].bands : i \in DOMAIN combined}
    IN  [i \in DOMAIN combined |->
            [YearMonth |-> combined[i].YearMonth,
             PracticeCode |-> IF combined[i].PracticeCode = NaN THEN <<"0">>
                              ELSE combined[i].PracticeCode,
             bands |-> [n \in all_clean_age_cols |-> fillna(combined[i], n)],
             TotalGP |-> combined[i].TotalGP]]

\* the csv files of the workforce folder: name, header list, rows of cells
WfFiles ==
    { [name |-> <<"G","P"," ","J","u","l","y"," ","2","0","2","3",".","c","s","v">>,
       columns |-> <<<<"P","R","A","C","_","C","O","D","E">>, <<"T","O","T","A","L","_","G","P","_","H","C","_","U","2","5">>, <<"T","O","T","A","L","_","G","P","_","H","C","_","2","5","_","2","9">>>>,
       rows |-> << <<<<"A","0","0","1">>, <<"1">>, <<"2">>>> >>],
      [name |-> <<"G","P"," ","W","o","r","k","f","o","r","c","e"," ","a","u","g","u","s","t"," ","2","0","2","3"," ","v","2",".","c","s","v">>,
       columns |-> <<<<"P","R","A","C","_","C","O","D","E">>, <<"T","O","T","A","L","_","G","P","_","H","C","_","U","2","5">>, <<"T","O","T","A","L","_","G","P","_","H","C","_","7","5","O","V">>>>,
       rows |-> << <<<<"B","0","0","2">>, <<"3">>, <<"N","/","A">>>>, <<NaN, NaN, <<" ","4">>>> >>],
      [name |-> <<"x","_","S","e","p","t","e","m","b","e","r"," ","2","0","2","3",".","c","s","v">>,
       columns |-> <<<<"P","r","a","c","t","i","c","e"," ","C","o","d","e">>, <<"T","O","T","A","L","_","G","P","_","H","C","_","U","N","K","N","O","W","N">>>>,
       rows |-> << <<<<"A","0","0","1">>, <<"1",",","2","0","0">>>>, <<<<"B","0","0","2">>, <<"1",".","5">>>> >>],
      [name |-> <<"G","P"," ","J","u","l"," ","2","0","2","3",".","c","s","v">>,
       columns |-> <<<<"P","R","A","C","_","C","O","D","E">>, <<"T","O","T","A","L","_","G","P","_","H","C","_","U","2","5">>>>,
       rows |-> << <<<<"A","0","0","1">>, <<"1">>>> >>],
      [name |-> <<"G","P"," ","J","u","l","y"," ","2","0","2","3"," ","b",".","c","s","v">>,
       columns |-> <<<<"C","O","D","E">>, <<"T","O","T","A","L","_","G","P","_","H","C","_","U","2","5">>>>,
       rows |-> << <<<<"A","0","0","1">>, <<"1">>>> >>],
      [name |-> <<"G","P"," ","J","u","l","y"," ","2","0","2","3"," ","c",".","c","s","v">>,
       columns |-> <<<<"P","R","A","C","_","C","O","D","E">>, <<"O","T","H","E","R">>>>,
       rows |-> << <<<<"A","0","0","1">>, <<"1">>>> >>],
      [name |-> <<"G","P"," ","J","u","l","y"," ","2","0","2","3"," ","d",".","c","s","v">>,
       columns |-> <<<<" ","P","R","A","C","_","C","O","D","E">>, <<"T","O","T","A","L","_","G","P","_","H","C","_","U","2","5">>>>,
       rows |-> << <<<<"A","0","0","1">>, <<"1">>>> >>] }

\* main(): source_files = list(SRC_BASE.glob("*.csv")); without a file the error
\* is logged and main returns
DiscoverCsv ==
    /\ script = "workforce" /\ step = "start"
    /\ files' \in SeqsUpTo(WfFiles, MaxFiles)
    /\ IF files' = <<>>
       THEN Fail("0", "ERROR No CSV files found in directory")
       ELSE step' = "processing" /\ UNCHANGED <<log, exit_code>>
    /\ UNCHANGED <<pcVars, rsVars, script, written, out_df, gpVars, mapVars, frameVars,
                   imdVars, file_no, all_data, otherVars>>

\* main(): one turn of the loop over source_files.  A file without a month in
\* its name, without a practice code column or without an age column is skipped;
\* read_csv raises ValueError for usecols when a header it is asked for by its
\* stripped name has outer whitespace in the file, which ends the process
ProcessFile ==
    /\ script = "workforce" /\ step = "processing" /\ file_no < Len(files)
    /\ LET f == files[file_no + 1]
           year_month == extract_year_month_from_filename(f.name)
           H == [j \in DOMAIN f.columns |-> Strip(f.columns[j])]
           cols_to_load == {practice_col(H)} \cup age_cols(H)
       IN  IF year_month = None \/ practice_col(H) = 0 \/ age_cols(H) = {}
           THEN UNCHANGED <<all_data, log, exit_code, step>>
           ELSE IF \E j \in cols_to_load : H[j] # f.columns[j]
           THEN Fail("1", "Traceback ValueError usecols") /\ UNCHANGED all_data
           ELSE /\ all_data' = Append(all_data, wf_frame(f, year_month))
                /\ UNCHANGED <<log, exit_code, step>>
    /\ file_no' = file_no + 1
    /\ UNCHANGED <<pcVars, rsVars, script, written, out_df, gpVars, mapVars, frameVars,
                   imdVars, files, otherVars>>

\* main(): after the loop: without a frame the error is logged and main returns;
\* else concat, fillna(0) and final_df.to_csv(OUT_FILE, index=False)
CombineAndWrite ==
    /\ script = "workforce" /\ step = "processing" /\ file_no = Len(files)
    /\ IF all_data = <<>>
       THEN /\ log' = Append(log, "ERROR No data was successfully processed from any file")
            /\ UNCHANGED <<written, out_df>>
       ELSE /\ out_df' = wf_final(all_data)
            /\ written' = TRUE
            /\ UNCHANGED log
    /\ exit_code' = "0"
    /\ step' = "exit"
    /\ UNCHANGED <<pcVars, rsVars, script, gpVars, mapVars, frameVars, imdVars, folderVars, otherVars>>

-----------------------------------------------------------------------------
(* Practiceinformation.py: the command line *)

MaxArgs == 3

\* the command line words: -v, -vv, --verbose, and an option that is not the flag
CliWords == {<<"-","v">>, <<"-","v","v">>, <<"-","-","v","e","r","b","o","s","e">>, <<"-","-","o","u","t","=","o",".","c","s","v">>}

\* how often one word gives the flag -v/--verbose
flag_count(word) ==
    IF StartsWith(word, <<"-","-">>) THEN (IF word = <<"-","-","v","e","r","b","o","s","e">> THEN 1 ELSE 0)
    ELSE IF StartsWith(word, <<"-">>) /\ \A i \in 2..Len(word) : word[i] = "v"
         THEN Len(word) - 1
    ELSE 0

\* parse_args(): args.verbose under action="count", default=1: argparse puts the
\* default in the namespace and adds one to it for every occurrence of the flag
RECURSIVE parse_args_verbose(_, _)
parse_args_verbose(words, count) ==
    IF words = <<>> THEN count
    ELSE parse_args_verbose(Tail(words), count + flag_count(Head(words)))

\* setup_logger(verbosity): the level
setup_logger(verbosity) ==
    IF verbosity <= 0 THEN "WARNING" ELSE IF verbosity = 1 THEN "INFO" ELSE "DEBUG"

InitCli ==
    /\ script = "none" /\ ProcessStart /\ RestStart
    /\ pc_arg = NaN /\ pc_ret = Pending
    /\ rs_cols = <<>> /\ rs_cands = <<>> /\ fc_ret = Pending /\ pk_ret = Pending

\* the shell starts the script with some words
StartWithArgs ==
    /\ step = "start" /\ argv = <<>>
    /\ argv' \in SeqsUpTo(CliWords, MaxArgs)
    /\ step' = "started"
    /\ UNCHANGED <<pcVars, rsVars, script, log, written, out_df, exit_code, gpVars, mapVars,
                   frameVars, imdVars, folderVars, incVars, prev_run, verbose, level, encVars>>

\* main(): args = parse_args()
ParseArgs ==
    /\ step = "started"
    /\ verbose' = parse_args_verbose(argv, verbose)
    /\ step' = "parsed"
    /\ UNCHANGED <<pcVars, rsVars, script, log, written, out_df, exit_code, gpVars, mapVars,
                   frameVars, imdVars, folderVars, incVars, prev_run, argv, level, encVars>>

\* main(): logger = setup_logger(args.verbose)
SetupLogger ==
    /\ step = "parsed"
    /\ level' = setup_logger(verbose)
    /\ step' = "configured"
    /\ UNCHANGED <<pcVars, rsVars, script, log, written, out_df, exit_code, gpVars, mapVars,
                   frameVars, imdVars, folderVars, incVars, prev_run, argv, verbose, encVars>>

NextCli == StartWithArgs \/ ParseArgs \/ SetupLogger

SpecCli == InitCli /\ [][NextCli]_vars

-----------------------------------------------------------------------------
(* Reading a CSV file: the encodings each script gives pandas.read_csv *)

MaxBytes == 3

\* bytes of a file: A, 0x81, the pound sign of the single-byte encodings (0xA3),
\* the UTF-8 lead byte of the pound sign (0xC2), and the byte-order marker EF BB BF
FileBytes == {65, 129, 163, 194, 239, 187, 191}

IsContinuation(b) == b >= 128 /\ b <= 191

\* the utf-8 codec accepts the bytes
RECURSIVE utf8_decodes(_)
utf8_decodes(bytes) ==
    IF bytes = <<>> THEN TRUE
    ELSE LET b == Head(bytes)
         IN  IF b < 128 THEN utf8_decodes(Tail(bytes))
             ELSE IF b >= 194 /\ b <= 223
                  THEN /\ Len(bytes) >= 2 /\ IsContinuation(bytes[2])
                       /\ utf8_decodes(SubSeq(bytes, 3, Len(bytes)))
             ELSE IF b >= 224 /\ b <= 239
                  THEN /\ Len(bytes) >= 3
                       /\ IsContinuation(bytes[2]) /\ IsContinuation(bytes[3])
                       /\ (b = 224 => bytes[2] >= 160)
                       /\ (b = 237 => bytes[2] <= 159)
                       /\ utf8_decodes(SubSeq(bytes, 4, Len(bytes)))
             ELSE IF b >= 240 /\ b <= 244
                  THEN /\ Len(bytes) >= 4
                       /\ IsContinuation(bytes[2]) /\ IsContinuation(bytes[3])
                       /\ IsContinuation(bytes[4])
                       /\ (b = 240 => bytes[2] >= 144)
                       /\ (b = 244 => bytes[2] <= 143)
                       /\ utf8_decodes(SubSeq(bytes, 5, Len(bytes)))
             ELSE FALSE

\* the cp1252 codec has no character for five bytes
cp1252_decodes(bytes) == \A i \in 1..Len(bytes) : bytes[i] \notin {129, 141, 143, 144, 157}

\* the codec of the encoding accepts the bytes; utf-8-sig is utf-8 less a leading
\* byte-order marker, latin1 and iso-8859-1 give every byte a character
decodes(encoding, bytes) ==
    CASE encoding \in {"utf-8-sig", "utf-8"} -> utf8_decodes(bytes)
      [] encoding = "cp1252" -> cp1252_decodes(bytes)
      [] OTHER -> TRUE

\* the encodings a script reads its CSV input with, in the order it tries them;
\* read_csv without encoding= reads utf-8
encodings(r) ==
    CASE r = "income" -> <<"utf-8-sig", "utf-8", "cp1252">>
      [] r = "imd" -> <<"utf-8", "latin1">>
      [] r = "workforce" -> <<"iso-8859-1">>
      [] OTHER -> <<"utf-8">>

CsvReaders == {"income", "imd", "workforce", "gp_ons", "register"}

InitEncoding ==
    /\ script = "none" /\ ProcessStart /\ RestStart
    /\ pc_arg = NaN /\ pc_ret = Pending
    /\ rs_cols = <<>> /\ rs_cands = <<>> /\ fc_ret = Pending /\ pk_ret = Pending

\* a script comes to read a CSV file
OpenCsv ==
    /\ reader = "none"
    /\ reader' \in CsvReaders
    /\ content' \in SeqsUpTo(FileBytes, MaxBytes) \ {<<>>}
    /\ UNCHANGED <<pcVars, rsVars, procVars, gpVars, mapVars, frameVars, imdVars,
                   incVars, folderVars, prev_run, cliVars, tried, decoded>>

\* one pd.read_csv call: the next encoding of the script; UnicodeDecodeError
\* leads to the next call where the script catches it, and leaves the script
\* where it does not
ReadCsvAttempt ==
    /\ reader # "none" /\ decoded = "pending"
    /\ Len(tried) < Len(encodings(reader))
    /\ LET encoding == encodings(reader)[Len(tried) + 1]
       IN  /\ tried' = Append(tried, encoding)
           /\ decoded' = IF decodes(encoding, content) THEN encoding
                         ELSE IF Len(tried) + 1 = Len(encodings(reader))
                              THEN "UnicodeDecodeError"
                         ELSE "pending"
    /\ UNCHANGED <<pcVars, rsVars, procVars, gpVars, mapVars, frameVars, imdVars,
                   incVars, folderVars, prev_run, cliVars, reader, content>>

NextEncoding == OpenCsv \/ ReadCsvAttempt

SpecEncoding == InitEncoding /\ [][NextEncoding]_vars

-----------------------------------------------------------------------------
(* income.py *)

MaxHeaders == 3

IsLowerAlnum(c) == IsDigit(c) \/ (\E i \in DOMAIN LowerAlpha : LowerAlpha[i] = c)

\* re.sub(r"[^0-9a-z]+", "_", s)
RECURSIVE ReSubNonAlnum(_, _)
ReSubNonAlnum(s, inRun) ==
    IF s = <<>> THEN <<>>
    ELSE IF ~IsLowerAlnum(Head(s))
         THEN (IF inRun THEN <<>> ELSE <<"_">>) \o ReSubNonAlnum(Tail(s), TRUE)
         ELSE <<Head(s)>> \o ReSubNonAlnum(Tail(s), FALSE)

\* re.sub(r"_+", "_", s)
RECURSIVE ReSubUnderscores(_, _)
ReSubUnderscores(s, inRun) ==
    IF s = <<>> THEN <<>>
    ELSE IF Head(s) = "_"
         THEN (IF inRun THEN <<>> ELSE <<"_">>) \o ReSubUnderscores(Tail(s), TRUE)
         ELSE <<Head(s)>> \o ReSubUnderscores(Tail(s), FALSE)

\* s.strip("_")
RECURSIVE StripUnderscores(_)
StripUnderscores(s) ==
    IF s # <<>> /\ Head(s) = "_" THEN StripUnderscores(Tail(s))
    ELSE IF s # <<>> /\ s[Len(s)] = "_" THEN StripUnderscores(SubSeq(s, 1, Len(s) - 1))
    ELSE s

\* _normalize(text)
normalize(text) ==
    LET s1 == ReSubWs(Strip(text), <<" ">>, FALSE)
        s2 == Lower(s1)
        s3 == ReSubNonAlnum(s2, FALSE)
    IN  StripUnderscores(ReSubUnderscores(s3, FALSE))

\* re.fullmatch(r"lsoa\s*<word>", raw, flags=re.I)
fullmatch_lsoa(raw, word) ==
    /\ StartsWith(Lower(raw), <<"l","s","o","a">>)
    /\ LStrip(SubSeq(Lower(raw), 5, Len(raw))) = word

\* \w of the regular expressions
IsWordChar(c) == IsLetter(c) \/ IsDigit(c) \/ c = "_"

\* re.match(r"^\s*(\d{2})\s*(st|nd|rd|th)\s*percentile\b", raw, flags=re.I)
match_percentile(raw) ==
    LET a == LStrip(Lower(raw))
        b == LStrip(SubSeq(a, 3, Len(a)))
        c == LStrip(SubSeq(b, 3, Len(b)))
    IN  /\ Len(a) >= 2 /\ IsDigit(a[1]) /\ IsDigit(a[2])
        /\ \E suffix \in {<<"s","t">>, <<"n","d">>, <<"r","d">>, <<"t","h">>} : StartsWith(b, suffix)
        /\ StartsWith(c, <<"p","e","r","c","e","n","t","i","l","e">>)
        /\ (Len(c) = 10 \/ ~IsWordChar(c[11]))

\* re.search(r"percentage\s+with\s+income\s+information", raw, flags=re.I)
search_coverage(raw) ==
    Contains(ReSubWs(Lower(raw), <<" ">>, FALSE), <<"p","e","r","c","e","n","t","a","g","e"," ","w","i","t","h"," ","i","n","c","o","m","e"," ","i","n","f","o","r","m","a","t","i","o","n">>)

\* _canonical_rename(col)
canonical_rename(col) ==
    LET raw == Strip(col)
    IN  IF fullmatch_lsoa(raw, <<"c","o","d","e">>) THEN <<"l","s","o","a","_","c","o","d","e">>
        ELSE IF fullmatch_lsoa(raw, <<"n","a","m","e">>) THEN <<"l","s","o","a","_","n","a","m","e">>
        ELSE IF match_percentile(raw)
             THEN <<"p", LStrip(raw)[1], LStrip(raw)[2]>> \o <<"_","i","n","c","o","m","e">>
        ELSE IF search_coverage(raw) THEN <<"p","c","t","_","i","n","c","o","m","e","_","i","n","f","o">>
        ELSE normalize(raw)

\* str(k)
RECURSIVE str_int(_)
str_int(k) == IF k < 10 THEN <<Digits[k + 1]>> ELSE str_int(k \div 10) \o <<Digits[(k % 10) + 1]>>

\* f"{base}_{k}" without the loop that looks for a free k
suffixed_at_once(base, seen, k) == base \o <<"_">> \o str_int(k)

\* main(): while f"{base}_{k}" in seen: k += 1; then nc = f"{base}_{k}"
RECURSIVE suffixed(_, _, _)
suffixed(base, seen, k) ==
    IF (base \o <<"_">> \o str_int(k)) \in seen THEN suffixed(base, seen, k + 1)
    ELSE base \o <<"_">> \o str_int(k)

\* main(): the loop over df.columns that fills new_cols
RECURSIVE rename_all(_, _, _)
rename_all(columns, seen, acc) ==
    IF columns = <<>> THEN acc
    ELSE LET c == canonical_rename(Head(columns))
             nc == IF c \in seen THEN suffixed(c, seen, 2) ELSE c
         IN  rename_all(Tail(columns), seen \cup {nc}, Append(acc, nc))

\* headers of an income file: names that differ in case and spacing, a name that
\* normalises to a suffixed name, percentile and coverage headers
IncomeHeaders ==
    {<<"L","S","O","A"," ","c","o","d","e">>, <<"l","s","o","a"," "," ","C","O","D","E"," ">>, <<"l","s","o","a"," ","c","o","d","e"," ","2">>, <<"l","s","o","a"," ","c","o","d","e"," ","3">>, <<"1","0","t","h"," ","p","e","r","c","e","n","t","i","l","e"," ","(","%",")">>, <<"1","0"," ","T","H"," ","P","e","r","c","e","n","t","i","l","e">>, <<"P","1","0"," ","i","n","c","o","m","e">>, <<"P","e","r","c","e","n","t","a","g","e"," ","w","i","t","h"," "," ","i","n","c","o","m","e"," ","i","n","f","o","r","m","a","t","i","o","n"," ","(","%",")">>}

\* the header lists read_csv gives: read_csv makes the headers of a file distinct
IncomeHeaderLists ==
    {h \in SeqsUpTo(IncomeHeaders, MaxHeaders) :
        h # <<>> /\ \A i, j \in DOMAIN h : i # j => h[i] # h[j]}

InitIncome ==
    /\ script = "none" /\ ProcessStart /\ RestStart
    /\ pc_arg = NaN /\ pc_ret = Pending
    /\ rs_cols = <<>> /\ rs_cands = <<>> /\ fc_ret = Pending /\ pk_ret = Pending

\* main(): df = load_any(SRC, SHEET_NAME)
LoadAny ==
    /\ income_columns = <<>>
    /\ income_columns' \in IncomeHeaderLists
    /\ UNCHANGED <<pcVars, rsVars, procVars, gpVars, mapVars, frameVars, imdVars,
                   folderVars, prev_run, cliVars, encVars, new_cols>>

\* main(): the headers are stripped, renamed and made unique
RenameColumns ==
    /\ income_columns # <<>> /\ new_cols = <<>>
    /\ new_cols' = rename_all([i \in DOMAIN income_columns |-> Strip(income_columns[i])], {}, <<>>)
    /\ UNCHANGED <<pcVars, rsVars, procVars, gpVars, mapVars, frameVars, imdVars,
                   folderVars, prev_run, cliVars, encVars, income_columns>>

NextIncome == LoadAny \/ RenameColumns

SpecIncome == InitIncome /\ [][NextIncome]_vars

-----------------------------------------------------------------------------
(* One process runs one script *)

Init ==
    /\ script \in {"gp_ons", "imd", "register", "workforce"}
    /\ ProcessStart /\ RestStart
    /\ pc_arg = NaN /\ pc_ret = Pending
    /\ rs_cols = <<>> /\ rs_cands = <<>> /\ fc_ret = Pending /\ pk_ret = Pending

Next ==
    \/ LoadGP
    \/ ResolveGP
    \/ LoadMapping
    \/ PrepareMapping
    \/ RaiseOnStrAccessor
    \/ RaiseOnMergeKeys
    \/ MergePostcode
    \/ OutcodeFallback
    \/ Coalesce
    \/ FilterEngland
    \/ WriteOutput
    \/ InputMissing
    \/ LoadIMD
    \/ ResolveTarget
    \/ FinishIMD
    \/ Discover
    \/ ReadOneCsv
    \/ AggregateAndWrite
    \/ DiscoverCsv
    \/ ProcessFile
    \/ CombineAndWrite

Spec == Init /\ [][Next]_vars

-----------------------------------------------------------------------------
(* Two runs of the GP-to-ONS merge on the same two files *)

InitTwoRuns ==
    /\ script = "gp_ons"
    /\ ProcessStart /\ RestStart
    /\ pc_arg = NaN /\ pc_ret = Pending
    /\ rs_cols = <<>> /\ rs_cands = <<>> /\ fc_ret = Pending /\ pk_ret = Pending

\* a run has ended: its files and its outcome are kept, and main() starts again
\* in a new process
Rerun ==
    /\ script = "gp_ons" /\ step = "exit" /\ prev_run = <<>>
    /\ prev_run' = <<[gp_columns |-> gp_columns, gp_raw |-> gp_raw,
                    map_columns |-> map_columns, mapping |-> mapping,
                    written |-> written, out_df |-> out_df,
                    exit_code |-> exit_code, log |-> log]>>
    /\ step' = "start" /\ log' = <<>> /\ written' = FALSE /\ out_df' = <<>>
    /\ exit_code' = "running"
    /\ gp_columns' = <<>> /\ gp_raw' = <<>> /\ gp_core' = <<>>
    /\ cols' = [k \in {"PracticeCode"} |-> None]
    /\ map_columns' = <<>> /\ mapping' = <<>>
    /\ PCD2_col' = None /\ OUTCODE_col' = None /\ map_slim' = <<>>
    /\ picked' = [n \in {"CountryName"} |-> None]
    /\ m1' = <<>> /\ m2' = <<>> /\ m2_eng' = <<>>
    /\ UNCHANGED <<pcVars, rsVars, script, imdVars, folderVars, cliVars, encVars, incVars>>

\* run(): pd.read_csv(gp_file, ...) of the file the earlier run read
ReloadGP ==
    /\ script = "gp_ons" /\ step = "start" /\ prev_run # <<>>
    /\ gp_columns' = prev_run[1].gp_columns
    /\ gp_raw' = prev_run[1].gp_raw
    /\ step' = "gp_loaded"
    /\ UNCHANGED <<pcVars, rsVars, restVars, script, log, written, out_df, exit_code,
                   cols, gp_core, mapVars, frameVars, imdVars>>

\* run(): pd.read_csv(map_file, ...) of the file the earlier run read
ReloadMapping ==
    /\ script = "gp_ons" /\ step = "gp_core" /\ prev_run # <<>>
    /\ prev_run[1].map_columns # <<>>
    /\ map_columns' = prev_run[1].map_columns
    /\ mapping' = prev_run[1].mapping
    /\ step' = "map_loaded"
    /\ UNCHANGED <<pcVars, rsVars, restVars, script, log, written, out_df, exit_code, gpVars,
                   PCD2_col, OUTCODE_col, picked, map_slim, frameVars, imdVars>>

NextTwoRuns ==
    \/ prev_run = <<>> /\ LoadGP
    \/ prev_run = <<>> /\ LoadMapping
    \/ ReloadGP
    \/ ReloadMapping
    \/ ResolveGP
    \/ PrepareMapping
    \/ RaiseOnStrAccessor
    \/ RaiseOnMergeKeys
    \/ MergePostcode
    \/ OutcodeFallback
    \/ Coalesce
    \/ FilterEngland
    \/ WriteOutput
    \/ Rerun

SpecTwoRuns == InitTwoRuns /\ [][NextTwoRuns]_vars

\* run(): pd.read_csv(gp_file, ...) of a one-row GP.csv with address lines
LoadGPAddress ==
    /\ script = "gp_ons" /\ step = "start"
    /\ \E row \in AddrRows :
          /\ gp_columns' = AddrHeaders
          /\ gp_raw' = <<row>>
    /\ step' = "gp_loaded"
    /\ UNCHANGED <<pcVars, rsVars, restVars, script, log, written, out_df, exit_code,
                   cols, gp_core, mapVars, frameVars, imdVars>>

NextAddress == LoadGPAddress \/ ResolveGP

SpecAddress == InitTwoRuns /\ [][NextAddress]_vars

-----------------------------------------------------------------------------
(* C1 *)

\* the reference normaliser's compacted string: uppercased, whitespace filtered out
C1_NotSpace(c) == ~IsSpace(c)
C1_Compact == SelectSeq(Upper(pc_arg), C1_NotSpace)

\* C1: format_uk_postcode returns the missing marker for a non-text input; for a
\* text input it returns a text (it never fails): when the uppercased input with
\* all whitespace removed has length >= 5, that string with exactly one space
\* inserted before its last 3 characters, otherwise that string unchanged.
C1_PostcodeMatchesReference ==
    pc_ret # Pending =>
        IF ~IsStr(pc_arg) THEN pc_ret = NaN
        ELSE LET c == C1_Compact
                 n == Len(c)
             IN  /\ IsStr(pc_ret)
                 /\ IF n >= 5
                    THEN /\ Len(pc_ret) = n + 1
                         /\ {i \in 1..Len(pc_ret) : pc_ret[i] = " "} = {n - 2}
                         /\ \A i \in 1..n : c[i] = pc_ret[IF i <= n - 3 THEN i ELSE i + 1]
                    ELSE pc_ret = c

C1_Witness ==
    /\ pc_arg = <<"\t", "a", "b", "1", "\t", "\t", "2", "c", "d">>
    /\ pc_ret = <<"A", "B", "1", " ", "2", "C", "D">>

-----------------------------------------------------------------------------
(* C8, C9 *)

C8_Exact == {i \in DOMAIN rs_cands : \E j \in DOMAIN rs_cols : rs_cols[j] = rs_cands[i]}
C8_Folded ==
    {i \in DOMAIN rs_cands :
        \E j \in DOMAIN rs_cols : Strip(Lower(rs_cols[j])) = Strip(Lower(rs_cands[i]))}

\* C8: find_column returns the first candidate, in list order, that equals an
\* actual header exactly; if no candidate does, an actual header that equals the
\* first candidate, in list order, with such a header, both lowercased and
\* trimmed; and None if no candidate matches either way.
C8_FindColumnThreeSteps ==
    fc_ret # Pending =>
        IF C8_Exact # {} THEN fc_ret = rs_cands[Min(C8_Exact)]
        ELSE IF C8_Folded # {}
             THEN /\ fc_ret \in Range(rs_cols)
                  /\ Strip(Lower(fc_ret)) = Strip(Lower(rs_cands[Min(C8_Folded)]))
             ELSE fc_ret = None

\* the exact pass decides although an earlier candidate matches case-insensitively
C8_Witness ==
    /\ rs_cols = << <<"a","b"," ">>, <<"a"," ","b">> >>
    /\ rs_cands = << <<"A","b">>, <<"a"," ","b">> >>
    /\ fc_ret = <<"a"," ","b">>

\* the premise of C9: header h2 equals the later candidate i2 exactly, another
\* header h1 matches the earlier candidate i1 by its normalised form only
C9_Premise(i1, i2, h1, h2) ==
    /\ i1 < i2
    /\ h1 # h2
    /\ h2 = rs_cands[i2]
    /\ norm_key(h1) = norm_key(rs_cands[i1])
    /\ rs_cands[i1] \notin Range(rs_cols)

C9_Matching == {i \in DOMAIN rs_cands : \E j \in DOMAIN rs_cols :
                    norm_key(rs_cols[j]) = norm_key(rs_cands[i])}

-----------------------------------------------------------------------------
(* C2 .. C7: the merge run *)

\* the frames a claim reads are there
HasM1 == script = "gp_ons" /\ (step \in {"m1", "m2", "coalesced", "filtered"} \/ written)
HasM2 == script = "gp_ons" /\ (step \in {"m2", "coalesced", "filtered"} \/ written)
HasOut == script = "gp_ons" /\ (step \in {"coalesced", "filtered"} \/ written)
Wrote == script = "gp_ons" /\ written

\* "present": non-null and non-empty after trimming
Present(v) == v # NaN /\ \E i \in DOMAIN v : v[i] \notin {" ", "\t"}

Appended == {n \in GeoNames : picked[n] # None}

\* C2 as claimed: the coalesced value of an appended field is the postcode join's
\* value when that is present, else the outcode join's value when that is
\* present, else missing.
C2_CoalesceVerbatim ==
    HasOut =>
        \A i \in DOMAIN m2 : \A n \in Appended :
            m2[i].out[n] = IF Present(m2[i].geo[n]) THEN m2[i].geo[n]
                           ELSE IF Present(m2[i].geo_oc[n]) THEN m2[i].geo_oc[n]
                           ELSE NaN

\* C2 (amended): the coalesced value of an appended field is the postcode join's
\* value with its outer whitespace trimmed when that value is present, else the
\* outcode join's value trimmed when that is present, else missing; with both
\* present, X from the postcode and Y from the outcode, it is X trimmed.
C2_CoalesceTrimmed ==
    HasOut =>
        \A i \in DOMAIN m2 : \A n \in Appended :
            m2[i].out[n] = IF Present(m2[i].geo[n]) THEN Strip(m2[i].geo[n])
                           ELSE IF Present(m2[i].geo_oc[n]) THEN Strip(m2[i].geo_oc[n])
                           ELSE NaN

\* both joins supply a present value, the two differ, and the postcode's is kept
C2_Witness ==
    /\ HasOut
    /\ picked.RegionCode # None
    /\ \E i \in DOMAIN m2 :
          /\ m2[i].mi # 0 /\ m2[i].oi # 0 /\ m2[i].mi # m2[i].oi
          /\ m2[i].geo.RegionCode = R2sp
          /\ m2[i].geo_oc.RegionCode = R1
          /\ m2[i].out.RegionCode = <<"R", "2">>

\* the reference table has no two rows of one normalised postcode
NoDuplicatePostcodes ==
    \A j, k \in DOMAIN map_slim : j # k => map_slim[j].PCD2_fmt # map_slim[k].PCD2_fmt

\* C3 as claimed: the output has as many rows as the GP table whenever the
\* reference table has no duplicate postcodes.
C3_OutputCountIsInputCount ==
    (Wrote /\ NoDuplicatePostcodes) => Len(out_df) = Len(gp_raw)

\* a row of m2 the England filter keeps
C3_IsEngland(r) ==
    /\ r.out.CountryName # NaN
    /\ Upper(Strip(r.out.CountryName)) = ENGLAND

C3_Kept ==
    IF picked.CountryName = None THEN DOMAIN m2 ELSE {i \in DOMAIN m2 : C3_IsEngland(m2[i])}

\* C3 (amended): whenever the reference table has no duplicate normalised
\* postcodes, the merged table before the country filter has exactly one row per
\* GP row, in the GP table's order; the output has as many rows as the GP table
\* when the mapping has no country column, and otherwise as many as the merged
\* rows whose coalesced country is England.
C3_MergedCountIsInputCount ==
    /\ (HasM2 /\ NoDuplicatePostcodes) =>
          /\ Len(m2) = Len(gp_raw)
          /\ \A i \in DOMAIN m2 : m2[i].gi = i
    /\ (Wrote /\ NoDuplicatePostcodes) =>
          /\ Len(out_df) = Cardinality(C3_Kept)
          /\ picked.CountryName = None => Len(out_df) = Len(gp_raw)

\* two GP rows, a reference table without duplicates matching both, one row
\* of them outside England: the merged table has both, the output one
C3_Witness ==
    /\ Wrote /\ NoDuplicatePostcodes
    /\ Len(gp_raw) = 2 /\ Len(mapping) = 2 /\ Len(m2) = 2
    /\ picked.CountryName # None
    /\ m2[1].mi # 0 /\ m2[2].mi # 0
    /\ Len(out_df) = 1

\* C4: the outcode fallback join never multiplies rows: for any reference table,
\* the table after the fallback join has the rows of the table after the
\* postcode join, one for one and in order, however many reference rows share an
\* outcode.
C4_FallbackKeepsRowCount ==
    HasM2 =>
        /\ Len(m2) = Len(m1)
        /\ \A i \in DOMAIN m2 : m2[i].gi = m1[i].gi /\ m2[i].mi = m1[i].mi

\* two reference rows share the outcode that a GP row is matched by
C4_Witness ==
    /\ HasM2 /\ Len(m2) = Len(m1)
    /\ \E i \in DOMAIN m2 : \E j, k \in DOMAIN map_slim :
          /\ j # k
          /\ map_slim[j].Outcode = map_slim[k].Outcode
          /\ m2[i].oi = j
          /\ m2[i].Outcode_oc = map_slim[k].Outcode

\* the outcode of a normalised postcode: its part before the first whitespace
C5_Outcode(p) ==
    LET cut == {i \in DOMAIN p : p[i] \in {" ", "\t"}}
    IN  IF cut = {} THEN p ELSE SubSeq(p, 1, Min(cut) - 1)

C5_Carrying(oc) == {j \in DOMAIN map_slim : map_slim[j].Outcode = oc}

C6_EnglandByFallback(r) ==
    /\ ~Present(r.geo.CountryName)
    /\ Present(r.geo_oc.CountryName)
    /\ Upper(Strip(r.geo_oc.CountryName)) = ENGLAND

\* C6: the country filter acts after the coalesce step and on the coalesced
\* value: every GP row has its rows in the frames up to that step, and a row
\* whose country (compared trimmed and without regard to case) is England by the
\* outcode fallback alone is in the output.
C6_FilterAfterCoalesce ==
    /\ HasM1 => \A g \in DOMAIN gp_core : \E i \in DOMAIN m1 : m1[i].gi = g
    /\ HasM2 => \A g \in DOMAIN gp_core : \E i \in DOMAIN m2 : m2[i].gi = g
    /\ Wrote =>
          \A i \in DOMAIN m2 :
              (picked.CountryName # None /\ C6_EnglandByFallback(m2[i])) =>
                  \E o \in DOMAIN out_df :
                      /\ out_df[o].gi = m2[i].gi
                      /\ out_df[o].out = m2[i].out

C6_Witness ==
    /\ Wrote /\ picked.CountryName # None
    /\ \E i \in DOMAIN m2 :
          /\ C6_EnglandByFallback(m2[i])
          /\ m2[i].geo_oc.CountryName = EnglandLc
          /\ \E o \in DOMAIN out_df : out_df[o].gi = m2[i].gi

\* C7: a GP record matched by no reference row, by postcode or by outcode, is
\* in the output with every appended geography field missing.
C7_UnmatchedRowsKept ==
    Wrote =>
        \A i \in DOMAIN m2 :
            (m2[i].mi = 0 /\ m2[i].oi = 0) =>
                \E o \in DOMAIN out_df :
                    /\ out_df[o].gi = m2[i].gi
                    /\ \A n \in GeoNames : out_df[o].out[n] = NaN

-----------------------------------------------------------------------------
(* C10 *)

\* no header has the candidate's form: trimmed, lowercased, whitespace runs collapsed
C10_NoHeaderFor(H, candidates) ==
    \A i \in DOMAIN candidates : \A j \in DOMAIN H :
        ReSubWs(Lower(Strip(H[j])), <<" ">>, FALSE)
            # ReSubWs(Lower(Strip(candidates[i])), <<" ">>, FALSE)

\* the required GP fields no header of the list H resolves
C10_GpUnresolved ==
    [H \in GpHeaderLists |->
        {k \in {"PracticeCode", "PracticeName", "PostCode", "Status", "Addr1"} :
            C10_NoHeaderFor(H, want_map[k])}]

\* whether no header of the mapping's list H resolves the postcode column
C10_MapUnresolved ==
    [H \in {f.columns : f \in MapInputs} |-> C10_NoHeaderFor(H, PCD2_candidates)]

\* the IMD targets no header of the list H resolves, exactly or lowercased and trimmed
C10_ImdUnresolved ==
    [H \in {[j \in DOMAIN G |-> Strip(G[j])] : G \in ImdHeaderLists} |->
        {t \in Range(Targets) :
            \A i \in DOMAIN COL_CANDIDATES[t] : \A j \in DOMAIN H :
                /\ H[j] # COL_CANDIDATES[t][i]
                /\ Strip(Lower(H[j])) # Strip(Lower(COL_CANDIDATES[t][i]))}]

C10_GpRequiredUnresolved ==
    script = "gp_ons" /\ gp_columns # <<>> /\ C10_GpUnresolved[gp_columns] # {}

C10_MapRequiredUnresolved ==
    script = "gp_ons" /\ map_columns # <<>> /\ C10_MapUnresolved[map_columns]

C10_ImdRequiredUnresolved ==
    script = "imd" /\ df_columns # <<>> /\ C10_ImdUnresolved[df_columns] # {}

\* C10: in a run where a required field of an input file resolves to no header
\* (IMD extraction: any of the four targets; GP-to-ONS: PracticeCode,
\* PracticeName, PostCode, Status, Addr1, or the mapping's postcode column), the
\* output file is never written, the run gets no further than the resolution of
\* that file's columns, and it has logged an error when it ends.
C10_UnresolvedRequiredWritesNothing ==
    /\ C10_GpRequiredUnresolved =>
          /\ ~written /\ out_df = <<>>
          /\ step \in {"gp_loaded", "exit"}
          /\ step = "exit" => log # <<>> /\ exit_code = "2"
    /\ C10_MapRequiredUnresolved =>
          /\ ~written /\ out_df = <<>>
          /\ step \in {"map_loaded", "exit"}
          /\ step = "exit" => log # <<>> /\ exit_code = "3"
    /\ C10_ImdRequiredUnresolved =>
          /\ ~written /\ out_df = <<>>
          /\ step \in {"resolving", "exit"}
          /\ step = "exit" => log # <<>> /\ ~all_found

\* a GP-to-ONS run has ended on a GP file that has every required column but Status
C10_Witness ==
    /\ step = "exit" /\ ~written
    /\ C10_GpRequiredUnresolved /\ C10_GpUnresolved[gp_columns] = {"Status"}

-----------------------------------------------------------------------------
(* C11 *)

\* C11: a run that has ended after logging an error has a non-zero exit status,
\* and a run that has ended with exit status zero has written its output file.
C11_FatalExitsNonZero ==
    step = "exit" =>
        /\ log # <<>> => exit_code # "0"
        /\ exit_code = "0" => written

-----------------------------------------------------------------------------
(* C12 *)

\* C12: when a geography field resolves to no header of the mapping file, the
\* merge run still writes its output, and every output row has a column of that
\* canonical name whose value is missing.
C12_UnresolvedOptionalIsMissingColumn ==
    /\ (script = "gp_ons" /\ step \in {"map_slim", "m1", "m2", "coalesced", "filtered"}) =>
          exit_code = "running" /\ log = <<>>
    /\ Wrote =>
          \A o \in DOMAIN out_df : \A n \in GeoNames :
              picked[n] = None => (n \in DOMAIN out_df[o].out /\ out_df[o].out[n] = NaN)

\* the mapping has a region code column and no region name column: the output
\* row has the one filled and the other missing
C12_Witness ==
    /\ Wrote /\ out_df # <<>>
    /\ picked.RegionCode # None /\ picked.RegionName = None
    /\ out_df[1].out.RegionCode = R1
    /\ out_df[1].out.RegionName = NaN

-----------------------------------------------------------------------------
(* C13 *)

RegisterWrote == script = "register" /\ written

C13_Key(r) == <<r.YearMonth, r.PracticeCode>>

\* C13: the patient-register output is the list of the distinct (YearMonth,
\* PracticeCode) pairs of the combined input, one row per pair, each row's
\* NumberOfPatients the sum of the parsed values of the input rows of that pair,
\* sorted by YearMonth, then PracticeCode, ascending.
C13_OutputIsAllPairs ==
    RegisterWrote =>
        LET combined == Flatten(all_data)
        IN  /\ {C13_Key(out_df[k]) : k \in DOMAIN out_df}
                  = {C13_Key(combined[i]) : i \in DOMAIN combined}
            /\ \A k, l \in DOMAIN out_df :
                  k < l => KeyLess(C13_Key(out_df[k]), C13_Key(out_df[l]))
            /\ \A k \in DOMAIN out_df :
                  out_df[k].NumberOfPatients = SumOf(combined, C13_Key(out_df[k]))

-----------------------------------------------------------------------------
(* C14 *)

\* the cells of the monthly files that are no count and no date
C14_NoCount == {<<"N","/","A">>, NaN}
C14_NoDate == {<<"b","a","d">>, NaN}
C14_Unparseable(f) == \E i \in DOMAIN f : f[i][1] \in C14_NoDate \/ f[i][3] \in C14_NoCount

\* C14: in a patient-register run whose files, at any place of the sequence,
\* hold a NumberOfPatients or EXTRACT_DATE value that cannot be parsed, no output
\* file is written and the run ends with a logged error and a non-zero exit
\* status; the output is written only when every file has been read.
C14_UnparseableWritesNothing ==
    script = "register" =>
        /\ (\E k \in DOMAIN files : C14_Unparseable(files[k])) =>
              /\ ~written /\ out_df = <<>>
              /\ step = "exit" => (exit_code = "1" /\ log # <<>>)
        /\ written => Len(all_data) = Len(files)

\* the first file was read, the second has a count that is no number: the run
\* has ended without output
C14_Witness ==
    /\ script = "register" /\ step = "exit" /\ ~written /\ exit_code = "1"
    /\ Len(files) = 2 /\ Len(all_data) = 1
    /\ ~C14_Unparseable(files[1])
    /\ files[2] = <<RegRow.bNA>>

-----------------------------------------------------------------------------
(* C15 *)

\* a headcount cell that is no number
C15_NoNumber == {<<"N","/","A">>}

\* the file has a headcount cell that is no number
C15_Unparseable(f) ==
    \E i \in DOMAIN f.rows : \E j \in age_cols(f.columns) : f.rows[i][j] \in C15_NoNumber

\* C15: a workforce run that has processed a file with a headcount value that is
\* no number writes no output and ends with a logged error and a non-zero exit
\* status.
C15_UnparseableHeadcountIsFatal ==
    (script = "workforce" /\ \E k \in 1..file_no : C15_Unparseable(files[k])) =>
        /\ ~written
        /\ step = "exit" => (exit_code # "0" /\ log # <<>>)

-----------------------------------------------------------------------------
(* C20 *)

WorkforceWrote == script = "workforce" /\ written

\* C20: in every row of the workforce output, TotalGP is the sum of the row's
\* age band columns, the bands its file has not, filled with 0, included.
C20_TotalIsSumOfBands ==
    WorkforceWrote =>
        \A i \in DOMAIN out_df : out_df[i].TotalGP = SumSet(out_df[i].bands, DOMAIN out_df[i].bands)

\* two files with different age bands: a row of the first has a band of the
\* second, filled with 0, and a total that is not 0
C20_Witness ==
    /\ WorkforceWrote /\ Len(all_data) = 2
    /\ \E i \in DOMAIN out_df : \E n \in DOMAIN out_df[i].bands :
          /\ n \notin DOMAIN Flatten(all_data)[i].bands
          /\ out_df[i].bands[n] = 0
          /\ out_df[i].TotalGP = 3

-----------------------------------------------------------------------------
(* C16 *)

\* the postcode cell of the i-th row of GP.csv as read_csv gives it
C16_SourceCell(i) == Cell(gp_columns, gp_raw[i], cols.PostCode)

\* C16: a GP record whose postcode cell is empty or missing in GP.csv has the
\* missing marker as its normalised postcode, in the cleaned GP table and in the
\* output; it is no text.
C16_MissingPostcodeStaysMissing ==
    (script = "gp_ons" /\ gp_core # <<>>) =>
        /\ \A i \in DOMAIN gp_core :
              C16_SourceCell(i) = NaN => gp_core[i].PostCode = NaN
        /\ written =>
              \A o \in DOMAIN out_df :
                  C16_SourceCell(out_df[o].gi) = NaN => out_df[o].PostCode = NaN

-----------------------------------------------------------------------------
(* C17 *)

SecondRunEnded == script = "gp_ons" /\ prev_run # <<>> /\ step = "exit"

-----------------------------------------------------------------------------
(* C18 *)

\* how often the command line gives the verbosity flag
RECURSIVE C18_Flags(_)
C18_Flags(words) ==
    IF words = <<>> THEN 0
    ELSE (CASE Head(words) = <<"-","v">> -> 1
            [] Head(words) = <<"-","v","v">> -> 2
            [] Head(words) = <<"-","-","v","e","r","b","o","s","e">> -> 1
            [] OTHER -> 0) + C18_Flags(Tail(words))

\* C18: the logger has the level WARNING for a command line without the
\* verbosity flag, INFO for one -v and DEBUG for -vv.
C18_FlagSelectsThreeLevels ==
    step = "configured" =>
        /\ C18_Flags(argv) = 0 => level = "WARNING"
        /\ C18_Flags(argv) = 1 => level = "INFO"
        /\ C18_Flags(argv) = 2 => level = "DEBUG"

-----------------------------------------------------------------------------
(* C19 *)

\* the order the scripts are to try: UTF-8 with byte-order marker, UTF-8, then
\* a Western single-byte encoding
C19_Order(western) == <<"utf-8-sig", "utf-8", western>>

\* C19: each script reading a CSV file tries UTF-8 with byte-order marker, then
\* UTF-8, then a Western single-byte encoding, goes to the next only after the
\* one before failed, and never reads under a later encoding a file that an
\* earlier one decodes.
C19_EncodingsTriedInOrder ==
    reader # "none" =>
        \E western \in {"cp1252", "latin1", "iso-8859-1"} :
            /\ Len(tried) <= 3
            /\ \A i \in 1..Len(tried) : tried[i] = C19_Order(western)[i]
            /\ \A i \in 1..Len(tried) :
                   \A j \in 1..(i - 1) : ~decodes(C19_Order(western)[j], content)
            /\ decoded = "UnicodeDecodeError" => Len(tried) = 3

-----------------------------------------------------------------------------
(* C23 *)

\* the uppercased argument with all whitespace removed
C23_Compact == SelectSeq(Upper(pc_arg), C1_NotSpace)

\* C23: on a text input format_uk_postcode is idempotent; when the compacted
\* input has length >= 5 the result has exactly one space, 3 characters after
\* it, and its first whitespace-delimited token (the outcode of the fallback
\* join) is the compacted string less its last 3 characters.
C23_IdempotentWithOutcode ==
    (pc_ret # Pending /\ IsStr(pc_arg)) =>
        /\ format_uk_postcode(pc_ret) = pc_ret
        /\ Len(C23_Compact) >= 5 =>
              /\ {i \in 1..Len(pc_ret) : IsSpace(pc_ret[i])} = {Len(pc_ret) - 3}
              /\ pc_ret[Len(pc_ret) - 3] = " "
              /\ str_split_first(pc_ret) = SubSeq(C23_Compact, 1, Len(C23_Compact) - 3)

C23_Witness ==
    /\ pc_arg = <<"a", " ", "B", "1", "1", "a">>
    /\ pc_ret = <<"A", "B", " ", "1", "1", "A">>
    /\ str_split_first(pc_ret) = <<"A", "B">>

-----------------------------------------------------------------------------
(* C21 *)

\* the cell of address line k of the i-th row of GP.csv as read_csv gives it;
\* missing when GP.csv has no column for the line
C21_SourceLine(i, k) ==
    IF cols[k] = None THEN NaN ELSE Cell(gp_columns, gp_raw[i], cols[k])

C21_Present(v) == IsStr(v) /\ Strip(v) # <<>>

C21_Token(v) == Strip(ReSubWs(v, <<" ">>, FALSE))

\* the address lines of the row that are present in the source, then the
\* normalised postcode of the row
C21_Tokens(i) ==
    LET lines == <<C21_SourceLine(i, "Addr1"), C21_SourceLine(i, "Addr2"),
                   C21_SourceLine(i, "Addr3"), C21_SourceLine(i, "Addr4"),
                   C21_SourceLine(i, "Addr5"), gp_core[i].PostCode>>
        present == SelectSeq(lines, C21_Present)
    IN  [j \in DOMAIN present |-> C21_Token(present[j])]

\* C21: the Address of every practice is the single-space join of its address
\* lines 1-5 that are neither empty nor missing in GP.csv, followed by its
\* normalised postcode; a line missing in the source gives no token.
C21_AddressJoinsPresentLines ==
    (script = "gp_ons" /\ gp_core # <<>>) =>
        \A i \in DOMAIN gp_core :
            gp_core[i].Address = IF C21_Tokens(i) = <<>> THEN NaN ELSE JoinSpace(C21_Tokens(i))

-----------------------------------------------------------------------------
(* C22 *)

C22_Canonical(i) == canonical_rename(Strip(income_columns[i]))
C22_Earlier(i) == {new_cols[j] : j \in 1..(i - 1)}
C22_Suffixed(i, k) == C22_Canonical(i) \o <<"_">> \o str_int(k)

\* the name has the smallest suffix _k, k >= 2, that no earlier output header has
C22_SmallestFreeSuffix(i) ==
    \E k \in 2..(Len(income_columns) + 1) :
        /\ new_cols[i] = C22_Suffixed(i, k)
        /\ C22_Suffixed(i, k) \notin C22_Earlier(i)
        /\ \A n \in 2..(k - 1) : C22_Suffixed(i, n) \in C22_Earlier(i)

C22_DistinctAndAsMany ==
    /\ Len(new_cols) = Len(income_columns)
    /\ \A i, j \in DOMAIN new_cols : i # j => new_cols[i] # new_cols[j]

\* C22 as stated: the renamed headers are pairwise distinct and as many as the
\* input headers; the first header that maps to a canonical name keeps it, and
\* each later header that maps to it gets the name with the smallest suffix _k
\* (k >= 2) not yet used.
C22_FirstMappingKeepsName ==
    new_cols # <<>> =>
        /\ C22_DistinctAndAsMany
        /\ \A i \in DOMAIN new_cols :
              IF \A j \in 1..(i - 1) : C22_Canonical(j) # C22_Canonical(i)
              THEN new_cols[i] = C22_Canonical(i)
              ELSE C22_SmallestFreeSuffix(i)

\* C22, amended: the renamed headers are pairwise distinct and as many as the
\* input headers; a header keeps its canonical name when no earlier output
\* header has that name, and otherwise gets the name with the smallest suffix
\* _k (k >= 2) that no earlier output header has.
C22_UnusedNameKept ==
    new_cols # <<>> =>
        /\ C22_DistinctAndAsMany
        /\ \A i \in DOMAIN new_cols :
              IF C22_Canonical(i) \notin C22_Earlier(i)
              THEN new_cols[i] = C22_Canonical(i)
              ELSE C22_SmallestFreeSuffix(i)

C22_Witness ==
    /\ income_columns = <<<<"L","S","O","A"," ","c","o","d","e">>, <<"l","s","o","a"," ","c","o","d","e"," ","2">>, <<"l","s","o","a"," "," ","C","O","D","E"," ">>>>
    /\ new_cols = <<<<"l","s","o","a","_","c","o","d","e">>, <<"l","s","o","a","_","c","o","d","e","_","2">>, <<"l","s","o","a","_","c","o","d","e","_","3">>>>

====
